---- MODULE Spec2Model ----
(***************************************************************************)
(* Model of the crypto-dashboard backend: the rule-based chat parser       *)
(* (chat.service), the cache gateway (cache), the CoinGecko client         *)
(* (coingecko.service) and the history endpoint (coins.routes).            *)
(*                                                                         *)
(* Text is modelled as a sequence of lexemes.  A lexeme stands for a fixed *)
(* run of characters ("price", " ", "?", "7", "bit", ...).  No lexeme      *)
(* other than "?" contains a question mark, none contains a line break,    *)
(* and no lexeme contains part of a keyword of a rule, so matching a rule  *)
(* lexeme by lexeme is matching its regular expression character by        *)
(* character.                                                              *)
(***************************************************************************)
EXTENDS Integers, Sequences, FiniteSets, TLC

VARIABLES
    coinsTable,     \* rows of the coins table (local store)
    historyTable,   \* rows of the historical_prices table (local store)
    hasRedis,       \* cache.ts: redis client configured
    redis,          \* the cache store: set of [key, val, exp]
    now,            \* wall clock, seconds
    remoteIndex,    \* provider: /coins/list, a sequence of [id, symbol, name]
    res,            \* what the last operation returned, with its inputs
    retryPc,        \* retry(): position of the loop
    retryI,         \* retry(): loop counter i
    retryWaits,     \* retry(): the sleeps performed so far, ms
    retryCalls,     \* retry(): number of calls of fn so far
    retryOut,       \* retry(): what the call ended with
    retryArgs,      \* fetchCoinHistory: the coin and the days asked for
    usersTable,     \* rows of the users table: [id, email]
    favoritesTable, \* rows of the favorites table in order of insertion
    reqs,           \* the auth and favorites requests in progress, by client
    app,            \* api/index.ts: the module variable app
    invocations,    \* api/index.ts: the calls of handler in progress
    chartCoinId,    \* HistoryChart: the coinId prop
    chartHistory,   \* HistoryChart: state history
    chartLoading,   \* HistoryChart: state loading
    chartError,     \* HistoryChart: state error
    chartPending,   \* HistoryChart: the getCoinHistory requests in flight
    timeoutRef,     \* useDebounceCallback: timeoutRef.current
    timers,         \* the browser's pending timeouts: [id, due, args]
    clock,          \* the browser's clock, ms
    callLog,        \* the calls of the debounced function so far
    invoked         \* the calls of the wrapped callback so far

chatVars == <<coinsTable, historyTable, hasRedis, redis, now, remoteIndex, res>>
retryVars == <<retryPc, retryI, retryWaits, retryCalls, retryOut, retryArgs>>
webVars == <<usersTable, favoritesTable, reqs>>
lambdaVars == <<app, invocations>>
chartVars == <<chartCoinId, chartHistory, chartLoading, chartError, chartPending>>
debounceVars == <<timeoutRef, timers, clock, callLog, invoked>>

vars == <<chatVars, retryVars, webVars, lambdaVars, chartVars, debounceVars>>

----------------------------------------------------------------------------
\* Strings

SP == " "
QM == "?"

DigitSeq == <<"0", "1", "2", "3", "4", "5", "6", "7", "8", "9">>

Digits == {DigitSeq[i] : i \in 1..Len(DigitSeq)}

DigitVal(d) == (CHOOSE i \in 1..Len(DigitSeq) : DigitSeq[i] = d) - 1

\* String(n) of a non-negative integer
RECURSIVE NumStr(_)
NumStr(n) == IF n < 10 THEN <<DigitSeq[n + 1]>> ELSE Append(NumStr(n \div 10), DigitSeq[(n % 10) + 1])

\* String.prototype.toLowerCase, lexeme by lexeme
LowerSym(c) ==
    CASE c = "Bit" -> "bit"
      [] c = "PRICE" -> "price"
      [] c = "What" -> "what"
      [] c = "Show" -> "show"
      [] c = "ETH" -> "eth"
      [] c = "Doge" -> "doge"
      [] c = "ZZZ" -> "zzz"
      [] c = "Baby" -> "baby"
      [] c = "WHAT" -> "what" [] c = "IS" -> "is" [] c = "THE" -> "the"
      [] c = "SHOW" -> "show" [] c = "ME" -> "me" [] c = "OF" -> "of"
      [] c = "VOLUME" -> "volume" [] c = "CHANGE" -> "change"
      [] c = "MARKET" -> "market" [] c = "CAP" -> "cap"
      [] c = "DAY" -> "day" [] c = "TREND" -> "trend" [] c = "TOP" -> "top"
      [] c = "COIN" -> "coin" [] c = "S" -> "s" [] c = "BIT" -> "bit"
      [] c = "Ann" -> "ann"
      [] OTHER -> c

toLowerCase(s) == [i \in 1..Len(s) |-> LowerSym(s[i])]

\* String.prototype.toUpperCase on the symbols of the model
UpperSym(c) ==
    CASE c = "btc" -> "BTC" [] c = "eth" -> "ETH" [] c = "doge" -> "DOGE"
      [] c = "dc" -> "DC" [] c = "zzz" -> "ZZZ"
      [] c = "what" -> "WHAT" [] c = "is" -> "IS" [] c = "the" -> "THE"
      [] c = "show" -> "SHOW" [] c = "me" -> "ME" [] c = "of" -> "OF"
      [] c = "price" -> "PRICE" [] c = "volume" -> "VOLUME" [] c = "change" -> "CHANGE"
      [] c = "market" -> "MARKET" [] c = "cap" -> "CAP"
      [] c = "day" -> "DAY" [] c = "trend" -> "TREND" [] c = "top" -> "TOP"
      [] c = "coin" -> "COIN" [] c = "s" -> "S" [] c = "bit" -> "BIT"
      [] OTHER -> c

toUpperCase(s) == [i \in 1..Len(s) |-> UpperSym(s[i])]

RECURSIVE trimStart(_)
trimStart(s) == IF s # <<>> /\ Head(s) = SP THEN trimStart(Tail(s)) ELSE s

RECURSIVE trimEnd(_)
trimEnd(s) ==
    IF s # <<>> /\ s[Len(s)] = SP THEN trimEnd(SubSeq(s, 1, Len(s) - 1)) ELSE s

\* String.prototype.trim
trim(s) == trimEnd(trimStart(s))

\* s has the literal lit at position i
HasAt(s, i, lit) ==
    /\ i >= 1
    /\ i + Len(lit) - 1 <= Len(s)
    /\ SubSeq(s, i, i + Len(lit) - 1) = lit

\* String.prototype.includes
includes(s, sub) == \E i \in 1..(Len(s) + 1) : HasAt(s, i, sub)

RECURSIVE parseDigits(_, _)
parseDigits(s, acc) ==
    IF s = <<>> THEN acc ELSE parseDigits(Tail(s), acc * 10 + DigitVal(Head(s)))

\* parseInt(s, 10) of a run of digits
parseInt(s) == parseDigits(s, 0)

----------------------------------------------------------------------------
\* The rules of parseQuery.  A match is [ok, g1, g2]: the capture groups.

NoMatch == [ok |-> FALSE, g1 |-> <<>>, g2 |-> <<>>]

Min(S) == CHOOSE j \in S : \A k \in S : j <= k
Max(S) == CHOOSE j \in S : \A k \in S : k <= j

\* (.+?)(?:\?|$) from position p: one lexeme at least, then as few as
\* possible up to a question mark or the end of the text
LazyCapture(s, p) ==
    SubSeq(s, p, Min({j \in p..Len(s) : j = Len(s) \/ s[j + 1] = QM}))

\* literal l stands at position i with something after it to capture
CoreAt(s, i, l) == HasAt(s, i, l) /\ i + Len(l) <= Len(s)

\* the leftmost place where one of the literals lits is followed by a
\* capture, 0 when there is none
firstOf(hits) == IF hits = {} THEN 0 ELSE Min(hits)

FirstCore(s, lits) == firstOf({i \in 1..Len(s) : \E l \in lits : CoreAt(s, i, l)})

\* the length of the literal of lits that stands at position i
CoreLen(s, i, lits) == Max({Len(l) : l \in {m \in lits : CoreAt(s, i, m)}})

matchAt(s, lits, i) ==
    IF i = 0 THEN NoMatch
    ELSE [ok |-> TRUE, g1 |-> LazyCapture(s, i + CoreLen(s, i, lits)), g2 |-> <<>>]

\* a rule of the shape (?:prefix)?core(.+?)(?:\?|$)
MatchOf(s, lits) == matchAt(s, lits, FirstCore(s, lits))

\* /(?:what is the )?price of (.+?)(?:\?|$)/i
PriceRe(s) == MatchOf(s, {<<"price", SP, "of", SP>>})

\* the digits that end at position k (the greedy (\d+)? read from the
\* leftmost start)
RECURSIVE DigitsBefore(_, _)
DigitsBefore(s, k) ==
    IF k >= 1 /\ s[k] \in Digits THEN Append(DigitsBefore(s, k - 1), s[k]) ELSE <<>>

TrendCores == {<<"day", SP, "trend", SP, "of", SP>>, <<"day", SP, "history", SP, "of", SP>>}

trendAt(s, i) ==
    IF i = 0 THEN NoMatch
    ELSE [ok |-> TRUE,
          g1 |-> DigitsBefore(s, IF i >= 2 /\ s[i - 1] = "-" THEN i - 2 ELSE i - 1),
          g2 |-> LazyCapture(s, i + CoreLen(s, i, TrendCores))]

\* /(?:show me the )?(\d+)?-?day (?:trend|history) of (.+?)(?:\?|$)/i
TrendRe(s) == trendAt(s, FirstCore(s, TrendCores))

\* /(?:what is the )?volume of (.+?)(?:\?|$)/i
VolumeRe(s) == MatchOf(s, {<<"volume", SP, "of", SP>>})

\* /(?:what is the )?(?:24h |24 hour )?change of (.+?)(?:\?|$)/i
ChangeRe(s) == MatchOf(s, {<<"change", SP, "of", SP>>})

\* /(?:what is the )?market cap(?:italization)? of (.+?)(?:\?|$)/i
MarketCapRe(s) ==
    MatchOf(s, {<<"market", SP, "cap", SP, "of", SP>>,
                <<"market", SP, "cap", "italization", SP, "of", SP>>})

TopLit == <<"show", SP, "me", SP, "top", SP>>

\* the digits that start at position p
RECURSIVE DigitsFrom(_, _)
DigitsFrom(s, p) ==
    IF p <= Len(s) /\ s[p] \in Digits THEN <<s[p]>> \o DigitsFrom(s, p + 1) ELSE <<>>

\* "show me top " at i, then digits, then " coin"
topAt(s, i, digits) ==
    /\ HasAt(s, i, TopLit)
    /\ digits # <<>>
    /\ HasAt(s, i + Len(TopLit) + Len(digits), <<SP, "coin">>)

topMatch(s, hits) ==
    IF hits = {} THEN NoMatch
    ELSE [ok |-> TRUE, g1 |-> DigitsFrom(s, Min(hits) + Len(TopLit)), g2 |-> <<>>]

\* /show me top (\d+) coins?/i
TopCoinsRe(s) ==
    topMatch(s, {i \in 1..Len(s) : topAt(s, i, DigitsFrom(s, i + Len(TopLit)))})

----------------------------------------------------------------------------
\* Values.  A JavaScript value of the model is [t, v]: a number ("num"),
\* null, NaN, +/-Infinity, a decimal column read as a string ("dec"), or a
\* string that is no number ("str").

Num(n) == [t |-> "num", v |-> n]
Dec(n) == [t |-> "dec", v |-> n]
Null == [t |-> "null", v |-> 0]
NaN == [t |-> "nan", v |-> 0]
PosInf == [t |-> "inf", v |-> 1]
NegInf == [t |-> "inf", v |-> -1]
Str == [t |-> "str", v |-> 0]

IsFinite(x) == x.t = "num"

\* x === null
IsNull(x) == x.t = "null"

\* x || "0" for a decimal column: null and the empty string give "0"
OrZeroStr(x) == IF x.t = "null" THEN Dec(0) ELSE x

\* x || 0 for a number column
OrZero(x) == IF x.t = "null" \/ x.t = "nan" \/ (x.t = "num" /\ x.v = 0) THEN Num(0) ELSE x

\* parseFloat of a string
parseFloat(x) == IF x.t = "dec" THEN Num(x.v) ELSE NaN

\* Number.prototype.toLocaleString / toFixed exist on numbers (NaN and
\* Infinity included) and toLocaleString on strings; on null the property
\* access throws a TypeError.
CanFormat(x) == x.t # "null"

\* ((currentPrice - pastPrice) / pastPrice) * 100 in IEEE arithmetic, in
\* hundredths of a percent
PercentChange(currentPrice, pastPrice) ==
    IF pastPrice.v = 0
    THEN IF currentPrice.v = 0 THEN NaN
         ELSE IF currentPrice.v > 0 THEN PosInf ELSE NegInf
    ELSE Num(((currentPrice.v - pastPrice.v) * 10000) \div pastPrice.v)

----------------------------------------------------------------------------
\* The cache gateway (cache.ts)

CACHE_TTL_COINS == 60
CACHE_TTL_HISTORY == 300
CACHE_TTL_SEARCH == 3600

\* `crypto:${type}:${args.join(":")}`
getCacheKey(type, args) == <<<<"crypto">>, <<type>>>> \o args

\* redis.get: the value stored under key and not expired, else null; the
\* request may fail
redisGet(store, t, key, fail) ==
    IF fail THEN [threw |-> TRUE, val |-> Null]
    ELSE IF \E e \in store : e.key = key /\ t < e.exp
    THEN [threw |-> FALSE, val |-> (CHOOSE e \in store : e.key = key /\ t < e.exp).val]
    ELSE [threw |-> FALSE, val |-> Null]

\* setex with the seconds taken for milliseconds of a later conversion
redisSetexMillis(store, t, key, ttl, value, fail) ==
    IF fail THEN [threw |-> TRUE, store |-> store]
    ELSE [threw |-> FALSE,
          store |-> {e \in store : e.key # key}
                        \cup {[key |-> key, val |-> value, exp |-> t + 1000 * ttl]}]

\* redis.setex: value is stored under key for ttl seconds; the request
\* may fail, and then stores nothing
redisSetex(store, t, key, ttl, value, fail) ==
    IF fail THEN [threw |-> TRUE, store |-> store]
    ELSE [threw |-> FALSE,
          store |-> {e \in store : e.key # key}
                        \cup {[key |-> key, val |-> value, exp |-> t + ttl]}]

\* the catch of getCached
getCatch(r) == IF r.threw THEN [threw |-> FALSE, val |-> Null] ELSE r

\* getCached: [threw, val]
getCached(store, t, key, env) ==
    IF ~env.hasRedis THEN [threw |-> FALSE, val |-> Null]
    ELSE getCatch(redisGet(store, t, key, env.cache \in {"getFail", "down"}))

\* setCached without its catch
setNoCatch(r) == r

\* the catch of setCached
setCatch(r) == [r EXCEPT !.threw = FALSE]

\* setCached: [threw, store]
setCached(store, t, key, value, ttl, env) ==
    IF ~env.hasRedis THEN [threw |-> FALSE, store |-> store]
    ELSE setCatch(redisSetex(store, t, key, ttl, value, env.cache \in {"setFail", "down"}))

----------------------------------------------------------------------------
\* The local store (db/schema) and the provider

DAY == 86400

\* the clock when the model starts
T0 == 40 * DAY

BITCOIN == <<"bit", "coin">>
ETH == <<"eth">>
DOGE == <<"doge">>
ZZZ == <<"zzz">>

\* seeded rows of the coins table; the numeric columns are nullable
SeedCoins ==
    { [coingeckoId |-> BITCOIN, symbol |-> <<"btc">>, name |-> <<"Bit", "coin">>,
       currentPrice |-> Dec(45000), marketCap |-> Num(900),
       priceChange24h |-> Dec(-2), volume24h |-> Dec(300)],
      [coingeckoId |-> ETH, symbol |-> <<"eth">>, name |-> <<"ETH">>,
       currentPrice |-> Null, marketCap |-> Null,
       priceChange24h |-> Null, volume24h |-> Null] }

\* seeded rows of historical_prices: age of the point in half days, price
SeedHistory(t) ==
    { [coinId |-> BITCOIN, timestamp |-> t - DAY \div 2, price |-> Dec(105)],
      [coinId |-> BITCOIN, timestamp |-> t - 2 * DAY, price |-> Dec(110)],
      [coinId |-> BITCOIN, timestamp |-> t - 5 * DAY, price |-> Dec(100)],
      [coinId |-> BITCOIN, timestamp |-> t - 20 * DAY, price |-> Dec(0)],
      [coinId |-> ETH, timestamp |-> t - DAY \div 2, price |-> Dec(0)],
      [coinId |-> ETH, timestamp |-> t - 2 * DAY, price |-> Dec(5)],
      [coinId |-> ETH, timestamp |-> t - 5 * DAY, price |-> Dec(0)] }

\* the provider's /coins/list
SeedIndex ==
    << [id |-> <<"doge", "cash">>, symbol |-> <<"dc">>, name |-> <<"Doge", "cash">>],
       [id |-> BITCOIN, symbol |-> <<"btc">>, name |-> <<"Bit", "coin">>],
       [id |-> DOGE, symbol |-> <<"doge">>, name |-> <<"Doge">>] >>

\* what /coins/markets may hold for a coin: numbers, or null where the
\* provider has no figure
MarketShapes ==
    { [current_price |-> Num(50), total_volume |-> Num(7),
       price_change_percentage_24h |-> Num(-3), market_cap |-> Num(1000)],
      [current_price |-> Num(50), total_volume |-> Num(7),
       price_change_percentage_24h |-> Null, market_cap |-> Num(1000)],
      [current_price |-> Null, total_volume |-> Null,
       price_change_percentage_24h |-> Null, market_cap |-> Null] }

\* the rows as the result of a query that yields one row at most
oneRow(hit) == IF hit = {} THEN <<>> ELSE <<CHOOSE c \in hit : TRUE>>

\* db.select().from(coins).where(eq(coins.coingeckoId, id)).limit(1)
selectCoin(id) == oneRow({c \in coinsTable : c.coingeckoId = id})

\* rows ordered by timestamp, newest first
byTimestampDesc(rows) ==
    [i \in 1..Cardinality(rows) |->
        CHOOSE r \in rows : Cardinality({o \in rows : o.timestamp > r.timestamp}) = i - 1]

HistoryLimit == 100

firstN(s, n) == SubSeq(s, 1, IF Len(s) < n THEN Len(s) ELSE n)

\* db.select().from(historicalPrices).where(and(eq(coinId), gte(timestamp,
\* startDate))).orderBy(desc(timestamp)).limit(100)
selectHistory(coinId, startDate) ==
    firstN(byTimestampDesc({h \in historyTable :
                                h.coinId = coinId /\ h.timestamp >= startDate}),
           HistoryLimit)

----------------------------------------------------------------------------
\* searchCoin (coingecko.service).  Each operator below is the code that
\* runs after one await; the value awaited is its last parameter.

\* the environment of one request: which collaborators fail, and what the
\* provider answers
Envs ==
    [hasRedis : BOOLEAN,
     db : {"ok", "fail1", "fail2"},
     cache : {"ok", "getFail", "setFail", "down"},
     list : {"ok", "429", "err"},
     markets : {"ok", "empty", "429", "err"},
     mdata : MarketShapes]

NoCoin == [id |-> <<>>, symbol |-> <<>>, name |-> <<>>]

\* Array.prototype.find: the first element of index among those at hits
firstAt(index, hits) == IF hits = {} THEN NoCoin ELSE index[Min(hits)]

isExact(coin, lowerQuery) ==
    \/ toLowerCase(coin.id) = lowerQuery
    \/ toLowerCase(coin.symbol) = lowerQuery
    \/ toLowerCase(coin.name) = lowerQuery

isPartial(coin, lowerQuery) ==
    \/ includes(toLowerCase(coin.name), lowerQuery)
    \/ includes(toLowerCase(coin.symbol), lowerQuery)

findExact(index, lowerQuery) ==
    firstAt(index, {i \in 1..Len(index) : isExact(index[i], lowerQuery)})

findPartial(index, lowerQuery) ==
    firstAt(index, {i \in 1..Len(index) : isPartial(index[i], lowerQuery)})

\* a || b on two results of find
orElse(a, b) == IF a # NoCoin THEN a ELSE b

\* one find, by substring only
matchCoinBySubstring(index, lowerQuery) == findPartial(index, lowerQuery)

\* coins.find(exact) || coins.find(substring)
matchCoin(index, lowerQuery) ==
    orElse(findExact(index, lowerQuery), findPartial(index, lowerQuery))

\* the element the provider's /coins/markets?ids=id returns
marketRow(coin, shape) ==
    [t |-> "coin", id |-> coin.id, symbol |-> coin.symbol, name |-> coin.name,
     current_price |-> shape.current_price, total_volume |-> shape.total_volume,
     price_change_percentage_24h |-> shape.price_change_percentage_24h,
     market_cap |-> shape.market_cap]

\* what searchCoin ends with: [threw, val, store, calls]
Found(val, store, calls) == [threw |-> FALSE, val |-> val, store |-> store, calls |-> calls]
Failed(store, calls) == [threw |-> TRUE, val |-> Null, store |-> store, calls |-> calls]

\* after setCached answered: return result
searchAfterSet(result, calls, set) ==
    IF set.threw THEN Failed(set.store, calls) ELSE Found(result, set.store, calls)

\* after /coins/markets answered: result = marketResponse.data[0] || null
searchAfterMarkets(env, store, t, cacheKey, result) ==
    searchAfterSet(result, <<"list", "markets">>,
                   setCached(store, t, cacheKey, result, CACHE_TTL_SEARCH, env))

\* after /coins/list answered and the index was searched
searchAfterList(env, store, t, cacheKey, matchedCoin) ==
    IF matchedCoin = NoCoin
    THEN searchAfterSet(Null, <<"list">>,
                        setCached(store, t, cacheKey, Null, CACHE_TTL_SEARCH, env))
    ELSE IF env.markets \in {"429", "err"}
    THEN Failed(store, <<"list", "markets">>)
    ELSE searchAfterMarkets(env, store, t, cacheKey,
                            IF env.markets = "empty" THEN Null
                            ELSE marketRow(matchedCoin, env.mdata))

\* after getCached answered
searchAfterGet(lowerQuery, env, store, t, cacheKey, cached) ==
    IF cached.threw THEN Failed(store, <<>>)
    ELSE IF ~IsNull(cached.val) THEN Found(cached.val, store, <<>>)
    ELSE IF env.list # "ok" THEN Failed(store, <<"list">>)
    ELSE searchAfterList(env, store, t, cacheKey, matchCoin(remoteIndex, lowerQuery))

searchWithKey(lowerQuery, env, store, t, cacheKey) ==
    searchAfterGet(lowerQuery, env, store, t, cacheKey, getCached(store, t, cacheKey, env))

\* the try block with the key built from the query as it came
searchCoinTryRawKey(query, env, store, t) ==
    searchWithKey(trim(toLowerCase(query)), env, store, t, getCacheKey("search", <<query>>))

\* the body of searchCoin's try block
searchCoinTry(query, env, store, t) ==
    searchWithKey(trim(toLowerCase(query)), env, store, t,
                  getCacheKey("search", <<trim(toLowerCase(query))>>))

\* searchCoin without its catch
searchNoCatch(r) == r

\* the catch of searchCoin: every error becomes null
searchCatch(r) == IF r.threw THEN Found(Null, r.store, r.calls) ELSE r

searchCoin(query, env, store, t) == searchCatch(searchCoinTry(query, env, store, t))

----------------------------------------------------------------------------
\* The chat handlers (chat.service).  A handler yields an outcome: the
\* answer and payload, whether it raised, the cache store it leaves, the
\* provider requests and the searchCoin calls it made; the caller fills
\* in the request (op, query, env, before) and the rule that ran.

Answer(kind, name, symbol, value, n) ==
    [kind |-> kind, name |-> name, symbol |-> symbol, value |-> value, n |-> n]

NoAnswer == Answer("none", <<>>, <<>>, Null, 0)

NoData == [kind |-> "none", coinId |-> <<>>, coinName |-> <<>>, n |-> 0, rows |-> <<>>]

NoEnv == [hasRedis |-> TRUE, db |-> "ok", cache |-> "ok", list |-> "ok", markets |-> "ok",
          mdata |-> CHOOSE m \in MarketShapes : \A f \in DOMAIN m : ~IsNull(m[f])]

Outcome(threw, answer, data, store, calls, searched) ==
    [op |-> "none", query |-> <<>>, env |-> NoEnv, before |-> {},
     rule |-> "none", coinName |-> <<>>, n |-> 0,
     threw |-> threw, answer |-> answer, data |-> data, store |-> store,
     calls |-> calls, searched |-> searched]

Done(answer, data, store, calls, searched) ==
    Outcome(FALSE, answer, data, store, calls, searched)

Raised(store, calls, searched) == Outcome(TRUE, NoAnswer, NoData, store, calls, searched)

\* the apology without the name
NotFoundAnonymous(coinName) == Answer("notFound", <<>>, <<>>, Null, 0)

\* "Sorry, I couldn't find information about ${coinName}. ..."
NotFound(coinName) == Answer("notFound", coinName, <<>>, Null, 0)

\* "Sorry, I encountered an error while fetching the <what>. ..."
ErrorAnswer(what) == Answer("error", <<what>>, <<>>, Null, 0)

\* a handler without its catch
Uncaught(r, what) == r

\* the catch of a handler
Caught(r, what) ==
    IF r.threw THEN Done(ErrorAnswer(what), NoData, r.store, r.calls, r.searched) ELSE r

\* the answer of a single-coin handler from a record of the provider;
\* formatting a null figure is a TypeError
remoteAnswer(kind, marketData, value, s) ==
    IF CanFormat(value)
    THEN Done(Answer(kind, marketData.name, toUpperCase(marketData.symbol), value, 0),
              NoData, s.store, s.calls, 1)
    ELSE Raised(s.store, s.calls, 1)

\* the answer of a single-coin handler from the local row
localAnswer(kind, row, value, store) ==
    Done(Answer(kind, row.name, toUpperCase(row.symbol), value, 0), NoData, store, <<>>, 0)

\* after searchCoin answered s: none found
notFoundAfter(coinName, s) == Done(NotFound(coinName), NoData, s.store, s.calls, 1)

\* handlePriceQuery
priceAfterSearch(coinName, s) ==
    IF ~IsNull(s.val) THEN remoteAnswer("price", s.val, s.val.current_price, s)
    ELSE notFoundAfter(coinName, s)

\* the provider asked whatever the local store holds
priceAfterDbRemoteFirst(coinName, env, store, t, coin) ==
    IF env.db = "fail1" THEN Raised(store, <<>>, 0)
    ELSE priceAfterSearch(coinName, searchCoin(coinName, env, store, t))

priceAfterDb(coinName, env, store, t, coin) ==
    IF env.db = "fail1" THEN Raised(store, <<>>, 0)
    ELSE IF Len(coin) > 0
    THEN localAnswer("price", coin[1], parseFloat(OrZeroStr(coin[1].currentPrice)), store)
    ELSE priceAfterSearch(coinName, searchCoin(coinName, env, store, t))

handlePriceQuery(coinName, env, store, t) ==
    Caught(priceAfterDb(coinName, env, store, t, selectCoin(toLowerCase(coinName))),
           "price")

\* handleVolumeQuery
volumeAfterSearch(coinName, s) ==
    IF ~IsNull(s.val) THEN remoteAnswer("volume", s.val, s.val.total_volume, s)
    ELSE notFoundAfter(coinName, s)

volumeAfterDb(coinName, env, store, t, coin) ==
    IF env.db = "fail1" THEN Raised(store, <<>>, 0)
    ELSE IF Len(coin) > 0
    THEN localAnswer("volume", coin[1], parseFloat(OrZeroStr(coin[1].volume24h)), store)
    ELSE volumeAfterSearch(coinName, searchCoin(coinName, env, store, t))

handleVolumeQuery(coinName, env, store, t) ==
    Caught(volumeAfterDb(coinName, env, store, t, selectCoin(toLowerCase(coinName))),
           "volume")

\* handleChangeQuery
changeAfterSearch(coinName, s) ==
    IF ~IsNull(s.val)
    THEN remoteAnswer("change", s.val, s.val.price_change_percentage_24h, s)
    ELSE notFoundAfter(coinName, s)

changeAfterDb(coinName, env, store, t, coin) ==
    IF env.db = "fail1" THEN Raised(store, <<>>, 0)
    ELSE IF Len(coin) > 0
    THEN localAnswer("change", coin[1], parseFloat(OrZeroStr(coin[1].priceChange24h)), store)
    ELSE changeAfterSearch(coinName, searchCoin(coinName, env, store, t))

handleChangeQuery(coinName, env, store, t) ==
    Caught(changeAfterDb(coinName, env, store, t, selectCoin(toLowerCase(coinName))),
           "change")

\* handleMarketCapQuery
marketCapAfterSearch(coinName, s) ==
    IF ~IsNull(s.val) THEN remoteAnswer("marketCap", s.val, s.val.market_cap, s)
    ELSE notFoundAfter(coinName, s)

marketCapAfterDb(coinName, env, store, t, coin) ==
    IF env.db = "fail1" THEN Raised(store, <<>>, 0)
    ELSE IF Len(coin) > 0
    THEN localAnswer("marketCap", coin[1], OrZero(coin[1].marketCap), store)
    ELSE marketCapAfterSearch(coinName, searchCoin(coinName, env, store, t))

handleMarketCapQuery(coinName, env, store, t) ==
    Caught(marketCapAfterDb(coinName, env, store, t, selectCoin(toLowerCase(coinName))),
           "market cap")

\* handleTrendQuery
\* history.map((h) => parseFloat(h.price || "0"))
historyPrices(history) == [i \in 1..Len(history) |-> parseFloat(OrZeroStr(history[i].price))]

trendData(row, days, history, prices) ==
    [kind |-> "trend", coinId |-> row.coingeckoId, coinName |-> row.name, n |-> days,
     rows |-> [i \in 1..Len(history) |->
                  [timestamp |-> history[i].timestamp, price |-> prices[i]]]]

\* the change from the newest price back to the oldest
trendOfReversed(row, days, history, prices, store) ==
    Done(Answer("trend", row.name, <<>>, PercentChange(prices[Len(prices)], prices[1]), days),
         trendData(row, days, history, prices), store, <<>>, 0)

\* currentPrice = prices[0], pastPrice = prices[prices.length - 1]
trendOf(row, days, history, prices, store) ==
    Done(Answer("trend", row.name, <<>>, PercentChange(prices[1], prices[Len(prices)]), days),
         trendData(row, days, history, prices), store, <<>>, 0)

trendAfterHistory(row, days, env, store, history) ==
    IF env.db = "fail2" THEN Raised(store, <<>>, 0)
    ELSE IF Len(history) = 0
    THEN Done(Answer("historyMissingLocal", row.name, <<>>, Null, days),
              NoData, store, <<>>, 0)
    ELSE trendOf(row, days, history, historyPrices(history), store)

\* the message naming the text of the query, not the coin found
trendAfterSearchQueryName(coinName, days, s) ==
    IF IsNull(s.val) THEN notFoundAfter(coinName, s)
    ELSE Done(Answer("historyMissingRemote", coinName, <<>>, Null, days),
              NoData, s.store, s.calls, 1)

trendAfterSearch(coinName, days, s) ==
    IF IsNull(s.val) THEN notFoundAfter(coinName, s)
    ELSE Done(Answer("historyMissingRemote", s.val.name, <<>>, Null, days),
              NoData, s.store, s.calls, 1)

\* startDate.setDate(startDate.getDate() - days)
trendAfterDb(coinName, days, env, store, t, coin) ==
    IF env.db = "fail1" THEN Raised(store, <<>>, 0)
    ELSE IF Len(coin) = 0
    THEN trendAfterSearch(coinName, days, searchCoin(coinName, env, store, t))
    ELSE trendAfterHistory(coin[1], days, env, store,
                           selectHistory(coin[1].coingeckoId, t - days * DAY))

handleTrendQuery(coinName, days, env, store, t) ==
    Caught(trendAfterDb(coinName, days, env, store, t, selectCoin(toLowerCase(coinName))),
           "trend")

\* handleTopCoinsQuery
\* rows ordered by market cap, largest first; PostgreSQL puts NULL first in
\* a descending order
capBefore(o, r) ==
    IF IsNull(o.marketCap) THEN ~IsNull(r.marketCap)
    ELSE ~IsNull(r.marketCap) /\ o.marketCap.v > r.marketCap.v

byMarketCapDesc(rows) ==
    [i \in 1..Cardinality(rows) |->
        CHOOSE r \in rows : Cardinality({o \in rows : capBefore(o, r)}) = i - 1]

\* db.select().from(coins).orderBy(desc(coins.marketCap)).limit(limit)
selectTop(limit) == firstN(byMarketCapDesc(coinsTable), limit)

topRows(topCoins) ==
    [i \in 1..Len(topCoins) |->
        [rank |-> i, name |-> topCoins[i].name, symbol |-> toUpperCase(topCoins[i].symbol),
         price |-> parseFloat(OrZeroStr(topCoins[i].currentPrice))]]

\* the handler without its test for an empty result: formatting the first
\* row of none throws
topAfterDbNoEmptyTest(limit, env, store, topCoins) ==
    IF env.db = "fail1" \/ Len(topCoins) = 0 THEN Raised(store, <<>>, 0)
    ELSE Done(Answer("topList", <<>>, <<>>, Null, limit),
              [kind |-> "top", coinId |-> <<>>, coinName |-> <<>>, n |-> limit,
               rows |-> topRows(topCoins)],
              store, <<>>, 0)

topAfterDb(limit, env, store, topCoins) ==
    IF env.db = "fail1" THEN Raised(store, <<>>, 0)
    ELSE IF Len(topCoins) = 0
    THEN Done(Answer("noCoins", <<>>, <<>>, Null, 0), NoData, store, <<>>, 0)
    ELSE Done(Answer("topList", <<>>, <<>>, Null, limit),
              [kind |-> "top", coinId |-> <<>>, coinName |-> <<>>, n |-> limit,
               rows |-> topRows(topCoins)],
              store, <<>>, 0)

handleTopCoinsQuery(limit, env, store) ==
    Caught(topAfterDb(limit, env, store, selectTop(limit)), "top coins")

\* the answer when no rule matches
Help == Answer("help", <<>>, <<>>, Null, 0)

\* what parseQuery returns, with the rule that ran and what it extracted
ran(rule, coinName, n, r) == [r EXCEPT !.rule = rule, !.coinName = coinName, !.n = n]

\* trendMatch[1] ? parseInt(trendMatch[1], 10) : 30
trendDays(g1) == IF g1 # <<>> THEN parseInt(g1) ELSE 30

\* the rules of parseQuery in the order of the source: the first match wins
dispatch(priceMatch, trendMatch, volumeMatch, changeMatch, marketCapMatch, topCoinsMatch, env, store, t) ==
    IF priceMatch.ok
    THEN ran("Price", trim(priceMatch.g1), 0,
             handlePriceQuery(trim(priceMatch.g1), env, store, t))
    ELSE IF trendMatch.ok
    THEN ran("Trend", trim(trendMatch.g2), trendDays(trendMatch.g1),
             handleTrendQuery(trim(trendMatch.g2), trendDays(trendMatch.g1), env, store, t))
    ELSE IF volumeMatch.ok
    THEN ran("Volume", trim(volumeMatch.g1), 0,
             handleVolumeQuery(trim(volumeMatch.g1), env, store, t))
    ELSE IF changeMatch.ok
    THEN ran("Change", trim(changeMatch.g1), 0,
             handleChangeQuery(trim(changeMatch.g1), env, store, t))
    ELSE IF marketCapMatch.ok
    THEN ran("MarketCap", trim(marketCapMatch.g1), 0,
             handleMarketCapQuery(trim(marketCapMatch.g1), env, store, t))
    ELSE IF topCoinsMatch.ok
    THEN ran("TopList", <<>>, parseInt(topCoinsMatch.g1),
             handleTopCoinsQuery(parseInt(topCoinsMatch.g1), env, store))
    ELSE ran("Unknown", <<>>, 0, Done(Help, NoData, store, <<>>, 0))

\* the rules with Volume tested ahead of Price
parseLowerVolumeFirst(lowerQuery, env, store, t) ==
    dispatch(IF VolumeRe(lowerQuery).ok THEN NoMatch ELSE PriceRe(lowerQuery),
             IF VolumeRe(lowerQuery).ok THEN NoMatch ELSE TrendRe(lowerQuery),
             VolumeRe(lowerQuery), ChangeRe(lowerQuery), MarketCapRe(lowerQuery),
             TopCoinsRe(lowerQuery), env, store, t)

parseLower(lowerQuery, env, store, t) ==
    dispatch(PriceRe(lowerQuery), TrendRe(lowerQuery), VolumeRe(lowerQuery),
             ChangeRe(lowerQuery), MarketCapRe(lowerQuery), TopCoinsRe(lowerQuery),
             env, store, t)

\* parseQuery: lowerQuery = query.toLowerCase().trim()
parseQuery(query, env, store, t) == parseLower(trim(toLowerCase(query)), env, store, t)

----------------------------------------------------------------------------
\* The query texts the model asks

WhatIsThe == <<"what", SP, "is", SP, "the", SP>>
ShowMeThe == <<"show", SP, "me", SP, "the", SP>>
PriceOf == <<"price", SP, "of", SP>>
VolumeOf == <<"volume", SP, "of", SP>>
ChangeOf == <<"change", SP, "of", SP>>
MarketCapOf == <<"market", SP, "cap", SP, "of", SP>>
DayTrendOf == <<"day", SP, "trend", SP, "of", SP>>
NDayTrendOf(n) == NumStr(n) \o <<"-">> \o DayTrendOf
TopN(n) == TopLit \o NumStr(n) \o <<SP, "coin", "s">>

\* the coin names asked for: two held locally, one only the provider
\* knows, one nobody knows
CoinNames == {BITCOIN, ETH, DOGE, ZZZ}

SingleCores == {PriceOf, VolumeOf, ChangeOf, MarketCapOf, NDayTrendOf(7)}

PlainQueries == {core \o name : core \in SingleCores, name \in CoinNames}

VariedQueries ==
    { <<"What", SP, "is", SP, "the", SP, "PRICE", SP, "of", SP, "Bit", "coin", QM>>,
      WhatIsThe \o <<"24h", SP>> \o ChangeOf \o DOGE \o <<QM>>,
      WhatIsThe \o <<"market", SP, "cap", "italization", SP, "of", SP>> \o ETH,
      ShowMeThe \o NDayTrendOf(3) \o ETH \o <<QM>>,
      NDayTrendOf(1) \o ETH,
      <<"1", "0", "-", "day", SP, "history", SP, "of", SP>> \o BITCOIN,
      DayTrendOf \o BITCOIN,
      <<"7", SP>> \o DayTrendOf \o BITCOIN,
      <<"trend", SP, "of", SP>> \o BITCOIN,
      ShowMeThe \o <<"trend", SP, "of", SP>> \o BITCOIN,
      WhatIsThe \o PriceOf \o BITCOIN,
      VolumeOf \o <<SP, "ZZZ", SP, QM, SP, "please">> }

\* texts that match more than one rule
OverlapQueries ==
    { VolumeOf \o PriceOf \o BITCOIN,
      PriceOf \o BITCOIN \o <<QM, SP>> \o VolumeOf \o ETH,
      ChangeOf \o VolumeOf \o ETH,
      MarketCapOf \o ChangeOf \o ETH,
      VolumeOf \o NDayTrendOf(7) \o ETH,
      NDayTrendOf(7) \o PriceOf \o BITCOIN,
      TopN(3) \o <<SP>> \o MarketCapOf \o BITCOIN,
      TopN(1) \o <<SP>> \o ChangeOf \o ZZZ }

OtherQueries ==
    { TopN(1), TopN(3), TopN(0), <<"Show", SP, "me", SP, "top", SP, "1", "0", SP, "coin">>,
      <<"top", SP, "coin", "s">>, <<"banana">> }

ChatQueries == PlainQueries \cup VariedQueries \cup OverlapQueries \cup OtherQueries

\* the environments that differ: the provider's figures matter only when
\* /coins/markets answers
DefaultShape == NoEnv.mdata

RequestEnvs ==
    {e \in Envs : /\ e.markets # "ok" => e.mdata = DefaultShape
                  /\ e.list # "ok" => e.markets = "ok" /\ e.mdata = DefaultShape}

ChatEnvs == RequestEnvs

----------------------------------------------------------------------------
\* GET /api/coins/:id/history (coins.routes).  Each operator is the code
\* that runs after one await; the value awaited is its last parameter.

\* parseInt(s, 10) of any string: the leading digits, or NaN without any
parseIntPrefix(s) ==
    IF s # <<>> /\ s[1] = "-"
    THEN IF DigitsFrom(s, 2) = <<>> THEN NaN ELSE Num(0 - parseInt(DigitsFrom(s, 2)))
    ELSE IF DigitsFrom(s, 1) = <<>> THEN NaN ELSE Num(parseInt(DigitsFrom(s, 1)))

\* request.query.days ? parseInt(request.query.days, 10) : 30
daysOf(daysParam) == IF daysParam # <<>> THEN parseIntPrefix(daysParam) ELSE Num(30)

\* isNaN(days) || days < 1 || days > 365
invalidDays(days) == days.t = "nan" \/ days.v < 1 \/ days.v > 365

\* if (x): null, NaN and 0 are falsy, an object is truthy
Truthy(x) == ~(x.t \in {"null", "nan"} \/ (x.t = "num" /\ x.v = 0))

HttpReply(status, body, store, reads) ==
    [op |-> "none", coinId |-> <<>>, daysParam |-> <<>>, env |-> NoEnv, before |-> {},
     threw |-> FALSE, status |-> status, body |-> body, store |-> store, reads |-> reads]

HttpRaised(store, reads) ==
    [HttpReply(0, [t |-> "err", error |-> "thrown"], store, reads) EXCEPT !.threw = TRUE]

ErrorBody(what) == [t |-> "err", error |-> what]

\* rows of historical_prices from startDate on, newest first, all of them
selectHistoryAll(coinId, startDate) ==
    byTimestampDesc({h \in historyTable : h.coinId = coinId /\ h.timestamp >= startDate})

\* history.map((h) => ({timestamp, price: h.price ? parseFloat(h.price) : 0}))
formattedHistory(history) ==
    [i \in 1..Len(history) |->
        [timestamp |-> history[i].timestamp,
         price |-> IF Truthy(history[i].price) THEN parseFloat(history[i].price)
                   ELSE Num(0)]]

historyResponse(row, days, history) ==
    [t |-> "obj", success |-> TRUE, coinId |-> row.coingeckoId, coinName |-> row.name,
     symbol |-> row.symbol, days |-> days.v, history |-> formattedHistory(history)]

historyAfterSet(response, set) ==
    IF set.threw THEN HttpRaised(set.store, 2) ELSE HttpReply(200, response, set.store, 2)

\* the response stored for the lifetime of the coins list
historySendCoinsTtl(env, store, t, cacheKey, response) ==
    historyAfterSet(response, setCached(store, t, cacheKey, response, CACHE_TTL_COINS, env))

historySend(env, store, t, cacheKey, response) ==
    historyAfterSet(response, setCached(store, t, cacheKey, response, CACHE_TTL_HISTORY, env))

historyAfterSelect(row, days, env, store, t, cacheKey, history) ==
    IF env.db = "fail2" THEN HttpRaised(store, 2)
    ELSE historySend(env, store, t, cacheKey, historyResponse(row, days, history))

historyAfterCoin(coinId, days, env, store, t, cacheKey, coin) ==
    IF env.db = "fail1" THEN HttpRaised(store, 1)
    ELSE IF Len(coin) = 0 THEN HttpReply(404, ErrorBody("notFound"), store, 1)
    ELSE historyAfterSelect(coin[1], days, env, store, t, cacheKey,
                            selectHistoryAll(coinId, t - days.v * DAY))

historyAfterGet(coinId, days, env, store, t, cacheKey, cached) ==
    IF cached.threw THEN HttpRaised(store, 0)
    ELSE IF Truthy(cached.val) THEN HttpReply(200, cached.val, store, 0)
    ELSE historyAfterCoin(coinId, days, env, store, t, cacheKey, selectCoin(coinId))

historyTry(coinId, days, env, store, t) ==
    IF invalidDays(days) THEN HttpReply(400, ErrorBody("invalidDays"), store, 0)
    ELSE historyAfterGet(coinId, days, env, store, t,
                         getCacheKey("history", <<coinId, NumStr(days.v)>>),
                         getCached(store, t, getCacheKey("history", <<coinId, NumStr(days.v)>>),
                                   env))

\* the catch of the route: 500
historyCatch(r) ==
    IF r.threw THEN HttpReply(500, ErrorBody("failed"), r.store, r.reads) ELSE r

historyRoute(coinId, daysParam, env, store, t) ==
    historyCatch(historyTry(coinId, daysOf(daysParam), env, store, t))

----------------------------------------------------------------------------
\* GET /api/coins (coins.routes), asked without search, price or market-cap
\* filter and in the default order

\* request.query.x ? parseInt(request.query.x, 10) : undefined
intParam(param) == IF param # <<>> THEN parseIntPrefix(param) ELSE Null

\* the limit and offset of the request, or the parameter refused
coinsWindow(top, page, pageSize) ==
    IF Truthy(top)
    THEN IF top.t = "nan" \/ top.v < 1 \/ top.v > 100
         THEN [bad |-> "top", limit |-> 0, offset |-> 0]
         ELSE [bad |-> "none", limit |-> top.v, offset |-> 0]
    ELSE IF ~IsNull(page) /\ ~IsNull(pageSize)
    THEN IF page.t = "nan" \/ page.v < 1
         THEN [bad |-> "page", limit |-> 0, offset |-> 0]
         ELSE IF pageSize.t = "nan" \/ pageSize.v < 1 \/ pageSize.v > 100
         THEN [bad |-> "pageSize", limit |-> 0, offset |-> 0]
         ELSE [bad |-> "none", limit |-> pageSize.v, offset |-> (page.v - 1) * pageSize.v]
    ELSE [bad |-> "none", limit |-> 50, offset |-> 0]

\* orderBy(desc(marketCap)).limit(limit).offset(offset), formatted
coinsPage(ordered, limit, offset) ==
    [i \in 1..Max({0, Min({limit, Len(ordered) - offset})}) |->
        [coingeckoId |-> ordered[offset + i].coingeckoId,
         currentPrice |-> IF Truthy(ordered[offset + i].currentPrice)
                          THEN parseFloat(ordered[offset + i].currentPrice) ELSE Num(0),
         marketCap |-> OrZero(ordered[offset + i].marketCap)]]

\* page || 1
pageOrOne(page) == IF Truthy(page) THEN page.v ELSE 1

coinsResponse(window, page, totalCount) ==
    [t |-> "obj", success |-> TRUE,
     data |-> coinsPage(byMarketCapDesc(coinsTable), window.limit, window.offset),
     total |-> totalCount, page |-> pageOrOne(page), pageSize |-> window.limit,
     totalPages |-> (totalCount + window.limit - 1) \div window.limit]

\* the try block: the count query, then the page query; no cache call
coinsTry(window, page, env, store) ==
    IF window.bad # "none" THEN HttpReply(400, ErrorBody(window.bad), store, 0)
    ELSE IF env.db = "fail1" THEN HttpRaised(store, 1)
    ELSE IF env.db = "fail2" THEN HttpRaised(store, 2)
    ELSE HttpReply(200, coinsResponse(window, page, Cardinality(coinsTable)), store, 2)

coinsRoute(topParam, pageParam, pageSizeParam, env, store) ==
    historyCatch(coinsTry(coinsWindow(intParam(topParam), intParam(pageParam),
                                      intParam(pageSizeParam)),
                          intParam(pageParam), env, store))

\* what the model asks of searchCoin and of the route
SearchTexts == {ZZZ, <<SP, "ZZZ", SP>>, <<"Doge">>, <<SP, "doge", SP>>}

SearchEnvs == {e \in RequestEnvs : e.db = "ok"}

HistoryIds == {BITCOIN, <<"Bit", "coin">>, ZZZ}

DaysParams == {<<>>, <<"7">>, <<"0">>, <<"abc">>, <<"4", "0", "0">>}

HistoryEnvs == {e \in Envs : e.list = "ok" /\ e.markets = "ok" /\ e.mdata = DefaultShape}

----------------------------------------------------------------------------
\* retry and fetchCoinHistory (coingecko.service)

Retries == 3
Delay == 10000

\* what the provider may answer to /coins/{id}/market_chart: a payload, a
\* 429, another HTTP error, or no response at all
Responses == {"ok", "noPrices", "429", "500", "neterr"}

\* axiosError.response?.status, 0 for undefined
statusOf(resp) == CASE resp = "429" -> 429 [] resp = "500" -> 500 [] OTHER -> 0

\* a wait that does not grow
waitTimeFlat(i) == Delay

\* delay * Math.pow(2, i)
waitTime(i) == Delay * 2 ^ i

\* giving up only on a failure other than 429
givesUpOnOther(status, i) == status # 429

\* axiosError.response?.status !== 429 || i === retries - 1
givesUp(status, i) == status # 429 \/ i = Retries - 1

NoOut == [kind |-> "none", err |-> "none", data |-> <<>>]
NoArgs == [coinId |-> <<>>, days |-> 0]

\* (response.data.prices || []).map(([timestamp, price]) => ({timestamp, price}))
pricePoints(resp, args) ==
    IF resp = "noPrices" THEN <<>>
    ELSE <<[timestamp |-> T0 - args.days * DAY, price |-> Num(100)],
           [timestamp |-> T0, price |-> Num(105)]>>

\* fetchCoinHistory(coinId, days) is called: retry enters its loop, i = 0
FetchStart ==
    /\ retryPc = "idle"
    /\ \E id \in {BITCOIN, ETH, DOGE}, days \in {1, 7, 30} :
         retryArgs' = [coinId |-> id, days |-> days]
    /\ retryPc' = "call"
    /\ retryI' = 0
    /\ retryWaits' = <<>>
    /\ retryCalls' = 0
    /\ retryOut' = NoOut
    /\ UNCHANGED <<chatVars, webVars, lambdaVars, chartVars, debounceVars>>

\* one pass of the loop body: fn() is awaited and answers resp
Attempt ==
    /\ retryPc = "call"
    /\ \E resp \in Responses :
         /\ retryCalls' = retryCalls + 1
         /\ IF resp \in {"ok", "noPrices"}
            THEN /\ retryPc' = "done"
                 /\ retryOut' = [kind |-> "returned", err |-> "none",
                                 data |-> pricePoints(resp, retryArgs)]
                 /\ UNCHANGED retryWaits
            ELSE IF givesUp(statusOf(resp), retryI)
            THEN /\ retryPc' = "done"
                 /\ retryOut' = [kind |-> "thrown", err |-> resp, data |-> <<>>]
                 /\ UNCHANGED retryWaits
            ELSE /\ retryPc' = "sleep"
                 /\ retryWaits' = Append(retryWaits, waitTime(retryI))
                 /\ retryOut' = [kind |-> "none", err |-> resp, data |-> <<>>]
    /\ UNCHANGED <<retryI, retryArgs>>
    /\ UNCHANGED <<chatVars, webVars, lambdaVars, chartVars, debounceVars>>

\* the sleep is over: i++, and the loop goes on while i < retries; past
\* the loop retry throws "Max retries exceeded"
Wake ==
    /\ retryPc = "sleep"
    /\ retryI' = retryI + 1
    /\ IF retryI + 1 < Retries
       THEN retryPc' = "call" /\ UNCHANGED retryOut
       ELSE /\ retryPc' = "done"
            /\ retryOut' = [kind |-> "thrown", err |-> "maxRetries", data |-> <<>>]
    /\ UNCHANGED <<retryWaits, retryCalls, retryArgs>>
    /\ UNCHANGED <<chatVars, webVars, lambdaVars, chartVars, debounceVars>>

\* the caller has the result
FetchEnd ==
    /\ retryPc = "done"
    /\ retryPc' = "idle"
    /\ retryI' = 0
    /\ retryWaits' = <<>>
    /\ retryCalls' = 0
    /\ retryOut' = NoOut
    /\ retryArgs' = NoArgs
    /\ UNCHANGED <<chatVars, webVars, lambdaVars, chartVars, debounceVars>>

----------------------------------------------------------------------------------------------------------------------------------------
\* The auth and favorites routes.  A request in progress is a record: its
\* inputs, the position of its handler (the await it stands at), the user
\* the hook attached, the status sent and the number of table reads and
\* writes it has made.

Clients == {"c1", "c2"}

NoReq ==
    [kind |-> "none", pc |-> "idle", header |-> <<>>, coinId |-> <<>>, email |-> <<>>,
     password |-> <<>>, userId |-> 0, status |-> 0, reads |-> 0, writes |-> 0]

\* the reply is sent: nothing of the handler runs after it
sent(r, status) == [r EXCEPT !.pc = "done", !.status = status]

\* verifyToken of auth.service: the payload of a token this server signed
\* and that has not expired, else null
verifyToken(token) ==
    CASE token = <<"tok1">> -> [t |-> "user", userId |-> 1]
      [] token = <<"tok2">> -> [t |-> "user", userId |-> 2]
      [] OTHER -> Null

\* a hook that lets every header starting with "Bearer " through
authenticateUnverified(r, first) ==
    IF r.header = <<>> \/ ~HasAt(r.header, 1, <<"Bearer", SP>>) THEN sent(r, 401)
    ELSE [r EXCEPT !.pc = first]

\* the onRequest hook of the favorites routes
authenticate(r, first) ==
    IF r.header = <<>> \/ ~HasAt(r.header, 1, <<"Bearer", SP>>) THEN sent(r, 401)
    ELSE IF IsNull(verifyToken(SubSeq(r.header, 3, Len(r.header)))) THEN sent(r, 401)
    ELSE [r EXCEPT !.userId = verifyToken(SubSeq(r.header, 3, Len(r.header))).userId,
                   !.pc = first]

\* the handler up to its first await
favoritesBegin(r) ==
    CASE r.kind = "list" -> authenticate(r, "selectFavorites")
      [] r.kind = "add" -> IF authenticate(r, "selectCoin").pc # "done" /\ r.coinId = <<>>
                           THEN sent(authenticate(r, "selectCoin"), 400)
                           ELSE authenticate(r, "selectCoin")
      [] r.kind = "remove" -> authenticate(r, "delete")
      [] r.kind = "check" -> authenticate(r, "selectExisting")

read(r) == [r EXCEPT !.reads = @ + 1]
wrote(r) == [r EXCEPT !.writes = @ + 1]

\* where(and(eq(favorites.userId, userId), eq(favorites.coinId, coinId)))
isFavorite(r) ==
    \E i \in 1..Len(favoritesTable) :
        favoritesTable[i].userId = r.userId /\ favoritesTable[i].coinId = r.coinId

\* the handler from one await to the next
favoritesStep(r) ==
    CASE r.pc = "selectFavorites" ->
            IF \A i \in 1..Len(favoritesTable) : favoritesTable[i].userId # r.userId
            THEN sent(read(r), 200) ELSE [read(r) EXCEPT !.pc = "selectCoins"]
      [] r.pc = "selectCoins" -> sent(read(r), 200)
      [] r.pc = "selectCoin" ->
            IF selectCoin(r.coinId) = <<>> THEN sent(read(r), 404)
            ELSE [read(r) EXCEPT !.pc = "selectExisting"]
      [] r.pc = "selectExisting" ->
            IF r.kind = "check" THEN sent(read(r), 200)
            ELSE IF isFavorite(r) THEN sent(read(r), 409)
            ELSE [read(r) EXCEPT !.pc = "insert"]
      [] r.pc = "insert" -> sent(wrote(r), 200)
      [] r.pc = "delete" -> sent(wrote(r), 200)

\* the favorites table after the step of r
favoritesAfter(r) ==
    CASE r.pc = "insert" -> Append(favoritesTable, [userId |-> r.userId, coinId |-> r.coinId])
      [] r.pc = "delete" ->
            SelectSeq(favoritesTable,
                      LAMBDA f : ~(f.userId = r.userId /\ f.coinId = r.coinId))
      [] OTHER -> favoritesTable

\* POST /api/auth/signup up to its first await
signupBegin(r) ==
    IF r.email = <<>> \/ r.password = <<>> THEN sent(r, 400)
    ELSE IF Len(r.password) < 6 THEN sent(r, 400)
    ELSE [r EXCEPT !.pc = "selectUser"]

registered(email) == \E u \in usersTable : u.email = email

\* the insert of a lower-cased email the unique constraint refuses throws;
\* the catch answers 500
signupStep(r) ==
    CASE r.pc = "selectUser" ->
            IF registered(toLowerCase(r.email)) THEN sent(read(r), 409)
            ELSE [read(r) EXCEPT !.pc = "hashPassword"]
      [] r.pc = "hashPassword" -> [r EXCEPT !.pc = "insertUser"]
      [] r.pc = "insertUser" ->
            IF registered(toLowerCase(r.email)) THEN sent(r, 500)
            ELSE sent([wrote(r) EXCEPT !.userId = Cardinality(usersTable) + 1], 200)

usersAfter(r) ==
    IF r.pc = "insertUser" /\ ~registered(toLowerCase(r.email))
    THEN usersTable \cup {[id |-> Cardinality(usersTable) + 1, email |-> toLowerCase(r.email)]}
    ELSE usersTable

InitWeb ==
    /\ usersTable = {}
    /\ favoritesTable = <<>>
    /\ reqs = [c \in Clients |-> NoReq]

----------------------------------------------------------------------------
\* The serverless entry (api/index.ts)

\* the awaits of buildApp in order; app.steps counts those that resolved
BuildSteps ==
    <<"dbPlugin", "cors", "coinRoutes", "chatRoutes", "authRoutes", "favoritesRoutes", "ready">>

Invocations == {"r1", "r2"}

\* let app = null
NoApp == [created |-> FALSE, steps |-> 0]

\* handler up to its first await: buildApp returns the app there is, or
\* creates one and starts registering
handlerBegin(a) == IF a.created THEN "resume" ELSE "build"

InitLambda ==
    /\ app = NoApp
    /\ invocations = [i \in Invocations |-> [pc |-> "idle", steps |-> 0]]

----------------------------------------------------------------------------
\* HistoryChart (frontend)

InitChart ==
    /\ chartCoinId = <<>>
    /\ chartHistory = Null
    /\ chartLoading = FALSE
    /\ chartError = Null
    /\ chartPending = <<>>

\* what getCoinHistory(id, 30) resolves to: the history of the coin asked for
getCoinHistory(id) == [t |-> "history", coinId |-> id]

\* "Failed to fetch historical data. Please try again."
FetchFailed == [t |-> "str", v |-> <<"failed">>]

\* the sequence without its k-th element
without(seq, k) == SubSeq(seq, 1, k - 1) \o SubSeq(seq, k + 1, Len(seq))

\* the history state after the request for id settled: setHistory(data) on
\* success, untouched in the catch
historyAfter(id, ok, history) == IF ok THEN getCoinHistory(id) ELSE history

\* the error state after the request settled
errorAfter(ok, error) == IF ok THEN error ELSE FetchFailed

----------------------------------------------------------------------------
\* useDebounceCallback (frontend)

\* the delay CoinsTable passes, and the default of the hook, in ms
DebounceDelay == 500

\* clearTimeout(id): the timer of that id, if it is still waiting, is dropped
clearTimeout(id, ts) == {t \in ts : t.id # id}

\* a call of the function with no clearTimeout: every call's timer stays
undebouncedCallback(ref, ts, id, at, args) ==
    [ref |-> id,
     timers |-> ts \cup {[id |-> id, due |-> at + DebounceDelay, args |-> args]}]

\* one call of the debounced function at time at; id is the handle
\* window.setTimeout returns; ref is timeoutRef.current, 0 for undefined
debouncedCallback(ref, ts, id, at, args) ==
    [ref |-> id,
     timers |-> (IF ref # 0 THEN clearTimeout(ref, ts) ELSE ts)
                   \cup {[id |-> id, due |-> at + DebounceDelay, args |-> args]}]

InitDebounce ==
    /\ timeoutRef = 0
    /\ timers = {}
    /\ clock = 0
    /\ callLog = <<>>
    /\ invoked = <<>>

----------------
\* The state machine

MaxTicks == 1

Idle == [op |-> "idle"]

Init ==
    /\ coinsTable = SeedCoins
    /\ historyTable = SeedHistory(T0)
    /\ hasRedis \in BOOLEAN
    /\ redis = {}
    /\ now = T0
    /\ remoteIndex = SeedIndex
    /\ res = Idle
    /\ retryPc = "idle"
    /\ retryI = 0
    /\ retryWaits = <<>>
    /\ retryCalls = 0
    /\ retryOut = NoOut
    /\ retryArgs = NoArgs
    /\ InitWeb /\ InitLambda /\ InitChart /\ InitDebounce

\* what a call of parseQuery leaves: its result, with the request and the
\* cache store before it
chatCall(q, env, store, t) ==
    [parseQuery(q, env, store, t) EXCEPT
        !.op = "chat", !.query = q, !.env = env, !.before = store]

\* a chat request that writes the coin it got from the provider to the store
ChatQueryStoringCoin ==
    /\ res.op = "idle"
    /\ \E q \in ChatQueries, env \in ChatEnvs :
         /\ env.hasRedis = hasRedis
         /\ res' = chatCall(q, env, redis, now)
    /\ redis' = res'.store
    /\ coinsTable' = IF res'.calls = <<"list", "markets">>
                     THEN coinsTable \cup
                              {[coingeckoId |-> DOGE, symbol |-> <<"doge">>, name |-> <<"Doge">>,
                                currentPrice |-> Dec(1), marketCap |-> Num(50),
                                priceChange24h |-> Dec(4), volume24h |-> Dec(20)]}
                     ELSE coinsTable
    /\ UNCHANGED <<historyTable, hasRedis, now, remoteIndex>>
    /\ UNCHANGED <<retryVars, webVars, lambdaVars, chartVars, debounceVars>>

\* POST /api/chat: one call of parseQuery
ChatQuery ==
    /\ res.op = "idle"
    /\ \E q \in ChatQueries, env \in ChatEnvs :
         /\ env.hasRedis = hasRedis
         /\ res' = chatCall(q, env, redis, now)
    /\ redis' = res'.store
    /\ UNCHANGED <<coinsTable, historyTable, hasRedis, now, remoteIndex>>
    /\ UNCHANGED <<retryVars, webVars, lambdaVars, chartVars, debounceVars>>

\* the response is delivered
Reply ==
    /\ res.op # "idle"
    /\ res' = Idle
    /\ UNCHANGED <<coinsTable, historyTable, hasRedis, redis, now, remoteIndex>>
    /\ UNCHANGED <<retryVars, webVars, lambdaVars, chartVars, debounceVars>>

\* what a call of searchCoin leaves: its result, with the request and the
\* cache store before it
searchResult(q, env, before, s) ==
    [op |-> "search", query |-> q, env |-> env, before |-> before,
     threw |-> s.threw, val |-> s.val, store |-> s.store, calls |-> s.calls]

\* one call of searchCoin
SearchCoinCall ==
    /\ res.op = "idle"
    /\ \E q \in SearchTexts, env \in SearchEnvs :
         /\ env.hasRedis = hasRedis
         /\ res' = searchResult(q, env, redis, searchCoin(q, env, redis, now))
    /\ redis' = res'.store
    /\ UNCHANGED <<coinsTable, historyTable, hasRedis, now, remoteIndex>>
    /\ UNCHANGED <<retryVars, webVars, lambdaVars, chartVars, debounceVars>>

historyCall(coinId, daysParam, env, store, t) ==
    [historyRoute(coinId, daysParam, env, store, t) EXCEPT
        !.op = "history", !.coinId = coinId, !.daysParam = daysParam,
        !.env = env, !.before = store]

\* GET /api/coins/:id/history?days=
HistoryRequest ==
    /\ res.op = "idle"
    /\ \E coinId \in HistoryIds, daysParam \in DaysParams, env \in HistoryEnvs :
         /\ env.hasRedis = hasRedis
         /\ res' = historyCall(coinId, daysParam, env, redis, now)
    /\ redis' = res'.store
    /\ UNCHANGED <<coinsTable, historyTable, hasRedis, now, remoteIndex>>
    /\ UNCHANGED <<retryVars, webVars, lambdaVars, chartVars, debounceVars>>

\* time passes between requests, d seconds and no further than cap after
\* the start; the cache store drops what has expired
Tick(d, cap) ==
    /\ res.op = "idle"
    /\ now + d <= T0 + cap
    /\ now' = now + d
    /\ redis' = {e \in redis : now + d < e.exp}
    /\ UNCHANGED <<coinsTable, historyTable, hasRedis, remoteIndex, res>>
    /\ UNCHANGED <<retryVars, webVars, lambdaVars, chartVars, debounceVars>>

\* an hour passes: the search TTL
TickSearchTtl == Tick(CACHE_TTL_SEARCH, MaxTicks * CACHE_TTL_SEARCH)

\* half an hour passes
TickHalfSearchTtl == Tick(CACHE_TTL_SEARCH \div 2, MaxTicks * CACHE_TTL_SEARCH)

ChatNext == ChatQuery \/ Reply \/ TickSearchTtl

SpecChat == Init /\ [][ChatNext]_vars

SearchNext ==
    SearchCoinCall \/ HistoryRequest \/ Reply \/ TickHalfSearchTtl

SpecSearch == Init /\ [][SearchNext]_vars

\* rows the coins table may hold besides the seeded ones
MoreCoins ==
    { [coingeckoId |-> DOGE, symbol |-> <<"doge">>, name |-> <<"Doge">>,
       currentPrice |-> Dec(1), marketCap |-> Num(50),
       priceChange24h |-> Dec(4), volume24h |-> Dec(20)],
      [coingeckoId |-> ZZZ, symbol |-> <<"zzz">>, name |-> <<"ZZZ">>,
       currentPrice |-> Dec(3), marketCap |-> Num(2000),
       priceChange24h |-> Dec(0), volume24h |-> Dec(9)] }

\* entries the provider's /coins/list may hold
IndexEntries ==
    {SeedIndex[i] : i \in 1..Len(SeedIndex)} \cup
        {[id |-> <<"baby", "doge">>, symbol |-> <<"doge">>, name |-> <<"Baby", "Doge">>]}

MaxIndex == 3

\* the indexes of at most MaxIndex entries, in every order
Indexes ==
    UNION {{ix \in [1..n -> IndexEntries] : \A i, j \in 1..n : i # j => ix[i] # ix[j]} :
              n \in 0..MaxIndex}

\* a process without cache over any store and any provider index
InitData ==
    /\ coinsTable \in SUBSET (SeedCoins \cup MoreCoins)
    /\ historyTable = SeedHistory(T0)
    /\ hasRedis = FALSE
    /\ redis = {}
    /\ now = T0
    /\ remoteIndex \in Indexes
    /\ res = Idle
    /\ retryPc = "idle"
    /\ retryI = 0
    /\ retryWaits = <<>>
    /\ retryCalls = 0
    /\ retryOut = NoOut
    /\ retryArgs = NoArgs
    /\ InitWeb /\ InitLambda /\ InitChart /\ InitDebounce

TopQueries == {TopN(1), TopN(3), TopN(0), <<"Show", SP, "me", SP, "top", SP, "1", "0", SP, "coin">>}

IndexTexts == {<<"Doge">>, <<"bit">>, <<"dc">>, ZZZ}

\* POST /api/chat with a top-coins query
TopQuery ==
    /\ res.op = "idle"
    /\ \E q \in TopQueries, env \in RequestEnvs :
         /\ env.hasRedis = hasRedis /\ env.cache = "ok" /\ env.list = "ok"
         /\ env.markets = "ok" /\ env.mdata = DefaultShape
         /\ res' = chatCall(q, env, redis, now)
    /\ redis' = res'.store
    /\ UNCHANGED <<coinsTable, historyTable, hasRedis, now, remoteIndex>>
    /\ UNCHANGED <<retryVars, webVars, lambdaVars, chartVars, debounceVars>>

\* one call of searchCoin, the cache not configured
IndexSearch ==
    /\ res.op = "idle"
    /\ \E q \in IndexTexts, env \in SearchEnvs :
         /\ env.hasRedis = hasRedis /\ env.cache = "ok"
         /\ res' = searchResult(q, env, redis, searchCoin(q, env, redis, now))
    /\ redis' = res'.store
    /\ UNCHANGED <<coinsTable, historyTable, hasRedis, now, remoteIndex>>
    /\ UNCHANGED <<retryVars, webVars, lambdaVars, chartVars, debounceVars>>

DataNext == TopQuery \/ IndexSearch \/ Reply

SpecData == InitData /\ [][DataNext]_vars

\* one query per intent without any leading phrase, and the forms it is
\* written in: behind nothing, "what is the ", "show me the " or the
\* "show me " of rule 6; with or without "?"; in lower or in upper case
FormBodies ==
    {PriceOf \o BITCOIN, VolumeOf \o BITCOIN, ChangeOf \o BITCOIN, MarketCapOf \o BITCOIN,
     NDayTrendOf(7) \o BITCOIN, <<"top", SP, "5", SP, "coin", "s">>}

LeadingPhrases == {<<>>, WhatIsThe, ShowMeThe, <<"show", SP, "me", SP>>}

FormsOf(body) ==
    {phrase \o body \o mark : phrase \in LeadingPhrases, mark \in {<<>>, <<QM>>}} \cup
    {toUpperCase(phrase \o body \o mark) : phrase \in LeadingPhrases, mark \in {<<>>, <<QM>>}}

FormQueries == UNION {FormsOf(body) : body \in FormBodies}

\* POST /api/chat with one form of a query, the provider and the cache in order
FormQuery ==
    /\ res.op = "idle"
    /\ \E q \in FormQueries, env \in RequestEnvs :
         /\ env.hasRedis = hasRedis /\ env.cache = "ok" /\ env.list = "ok"
         /\ env.markets = "ok" /\ env.mdata = DefaultShape
         /\ res' = chatCall(q, env, redis, now)
    /\ redis' = res'.store
    /\ UNCHANGED <<coinsTable, historyTable, hasRedis, now, remoteIndex>>
    /\ UNCHANGED <<retryVars, webVars, lambdaVars, chartVars, debounceVars>>

FormNext == FormQuery \/ Reply

SpecForms == Init /\ [][FormNext]_vars

\* the keys, values and lifetimes the cache gateway is called with
CacheKeys == {getCacheKey("search", <<DOGE>>), getCacheKey("history", <<BITCOIN, <<"7">>>>)}

CacheValues == {Null, Num(5), marketRow(SeedIndex[3], DefaultShape)}

CacheTtls == {CACHE_TTL_COINS, CACHE_TTL_HISTORY}

CacheEnvs ==
    {e \in RequestEnvs : e.db = "ok" /\ e.list = "ok" /\ e.markets = "ok" /\ e.mdata = DefaultShape}

\* one call of setCached
CacheSet ==
    /\ res.op = "idle"
    /\ \E key \in CacheKeys, value \in CacheValues, ttl \in CacheTtls, env \in CacheEnvs :
         /\ env.hasRedis = hasRedis
         /\ res' = [op |-> "set", key |-> key, value |-> value, ttl |-> ttl, env |-> env,
                    before |-> redis,
                    threw |-> setCached(redis, now, key, value, ttl, env).threw,
                    store |-> setCached(redis, now, key, value, ttl, env).store]
    /\ redis' = res'.store
    /\ UNCHANGED <<coinsTable, historyTable, hasRedis, now, remoteIndex>>
    /\ UNCHANGED <<retryVars, webVars, lambdaVars, chartVars, debounceVars>>

\* one call of getCached
CacheGet ==
    /\ res.op = "idle"
    /\ \E key \in CacheKeys, env \in CacheEnvs :
         /\ env.hasRedis = hasRedis
         /\ res' = [op |-> "get", key |-> key, env |-> env, before |-> redis, store |-> redis,
                    threw |-> getCached(redis, now, key, env).threw,
                    val |-> getCached(redis, now, key, env).val]
    /\ UNCHANGED <<coinsTable, historyTable, hasRedis, redis, now, remoteIndex>>
    /\ UNCHANGED <<retryVars, webVars, lambdaVars, chartVars, debounceVars>>

\* a minute passes: the shortest TTL
TickCoinsTtl == Tick(CACHE_TTL_COINS, MaxTicks * CACHE_TTL_COINS)

CacheNext == CacheSet \/ CacheGet \/ Reply \/ TickCoinsTtl

SpecCache == Init /\ [][CacheNext]_vars

\* two and a half minutes pass: half the history TTL
TickHalfHistoryTtl == Tick(CACHE_TTL_HISTORY \div 2, MaxTicks * CACHE_TTL_HISTORY)

HistoryNext == HistoryRequest \/ Reply \/ TickHalfHistoryTtl

SpecHistory == Init /\ [][HistoryNext]_vars

TopParams == {<<>>, <<"0">>, <<"abc">>, <<"5">>, <<"1", "0", "1">>, <<"-", "1">>}

PageParams == {<<>>, <<"2">>, <<"0">>}

PageSizeParams == {<<>>, <<"1">>}

CoinsEnvs ==
    {e \in RequestEnvs : e.list = "ok" /\ e.markets = "ok" /\ e.mdata = DefaultShape}

\* GET /api/coins?top=&page=&pageSize=
CoinsRequest ==
    /\ res.op = "idle"
    /\ \E topParam \in TopParams, pageParam \in PageParams, pageSizeParam \in PageSizeParams,
          env \in CoinsEnvs :
         /\ env.hasRedis = hasRedis /\ env.cache = "ok"
         /\ res' = [op |-> "coins", top |-> topParam, page |-> pageParam,
                    pageSize |-> pageSizeParam, env |-> env, before |-> redis,
                    out |-> coinsRoute(topParam, pageParam, pageSizeParam, env, redis)]
    /\ redis' = res'.out.store
    /\ UNCHANGED <<coinsTable, historyTable, hasRedis, now, remoteIndex>>
    /\ UNCHANGED <<retryVars, webVars, lambdaVars, chartVars, debounceVars>>

CoinsNext == CoinsRequest \/ Reply \/ TickCoinsTtl

SpecCoins == Init /\ [][CoinsNext]_vars

FavoriteCoinIds == {BITCOIN, ZZZ}

Headers ==
    {<<>>, <<"Bearer", SP, "tok1">>, <<"Bearer", SP, "tok2">>, <<"Bearer", SP, "forged">>,
     <<"bearer", SP, "tok1">>, <<"tok1">>}

MaxFavorites == 2

\* a request to one of the favorites routes arrives: the hook and the
\* handler run up to the first await
FavoritesRequest(c) ==
    /\ reqs[c].pc = "idle"
    /\ Len(favoritesTable) < MaxFavorites
    /\ \E kind \in {"list", "add", "remove", "check"}, header \in Headers,
          id \in FavoriteCoinIds \cup {<<>>} :
         /\ id = <<>> => kind = "add"
         /\ reqs' = [reqs EXCEPT ![c] =
                        favoritesBegin([NoReq EXCEPT !.kind = kind, !.header = header,
                                                      !.coinId = id])]
    /\ UNCHANGED <<usersTable, favoritesTable>>
    /\ UNCHANGED <<chatVars, retryVars, lambdaVars, chartVars, debounceVars>>

\* the query a favorites handler awaits completes
FavoritesStep(c) ==
    /\ reqs[c].kind \in {"list", "add", "remove", "check"}
    /\ reqs[c].pc \notin {"idle", "done"}
    /\ reqs' = [reqs EXCEPT ![c] = favoritesStep(reqs[c])]
    /\ favoritesTable' = favoritesAfter(reqs[c])
    /\ UNCHANGED usersTable
    /\ UNCHANGED <<chatVars, retryVars, lambdaVars, chartVars, debounceVars>>

\* the client has its answer
WebReply(c) ==
    /\ reqs[c].pc = "done"
    /\ reqs' = [reqs EXCEPT ![c] = NoReq]
    /\ UNCHANGED <<usersTable, favoritesTable>>
    /\ UNCHANGED <<chatVars, retryVars, lambdaVars, chartVars, debounceVars>>

FavoritesNext == \E c \in Clients : FavoritesRequest(c) \/ FavoritesStep(c) \/ WebReply(c)

SpecFavorites == Init /\ [][FavoritesNext]_vars

Emails == {<<"Ann", "@x">>, <<"ann", "@x">>, <<>>}

Passwords == {<<>>, <<"a", "b", "c">>, <<"s", "e", "c", "r", "e", "t">>}

\* POST /api/auth/signup arrives
SignupRequest(c) ==
    /\ reqs[c].pc = "idle"
    /\ \E email \in Emails, password \in Passwords :
         reqs' = [reqs EXCEPT ![c] =
                     signupBegin([NoReq EXCEPT !.kind = "signup", !.email = email,
                                                !.password = password])]
    /\ UNCHANGED <<usersTable, favoritesTable>>
    /\ UNCHANGED <<chatVars, retryVars, lambdaVars, chartVars, debounceVars>>

\* what the signup handler awaits completes
SignupStep(c) ==
    /\ reqs[c].kind = "signup"
    /\ reqs[c].pc \notin {"idle", "done"}
    /\ reqs' = [reqs EXCEPT ![c] = signupStep(reqs[c])]
    /\ usersTable' = usersAfter(reqs[c])
    /\ UNCHANGED favoritesTable
    /\ UNCHANGED <<chatVars, retryVars, lambdaVars, chartVars, debounceVars>>

SignupNext == \E c \in Clients : SignupRequest(c) \/ SignupStep(c) \/ WebReply(c)

SpecSignup == Init /\ [][SignupNext]_vars

\* the platform calls handler(req, res)
Invoke(i) ==
    /\ invocations[i].pc = "idle"
    /\ invocations' = [invocations EXCEPT ![i].pc = handlerBegin(app)]
    /\ app' = [app EXCEPT !.created = TRUE]
    /\ UNCHANGED <<chatVars, retryVars, webVars, chartVars, debounceVars>>

\* the register or ready call buildApp awaits resolves
BuildStep(i) ==
    /\ invocations[i].pc = "build"
    /\ app' = [app EXCEPT !.steps = @ + 1]
    /\ invocations' = [invocations EXCEPT
                          ![i].pc = IF app.steps + 1 = Len(BuildSteps) THEN "resume" ELSE "build"]
    /\ UNCHANGED <<chatVars, retryVars, webVars, chartVars, debounceVars>>

\* fastify.server.emit("request", req, res)
Emit(i) ==
    /\ invocations[i].pc = "resume"
    /\ invocations' = [invocations EXCEPT ![i] = [pc |-> "done", steps |-> app.steps]]
    /\ UNCHANGED app
    /\ UNCHANGED <<chatVars, retryVars, webVars, chartVars, debounceVars>>

\* the response has ended
Finish(i) ==
    /\ invocations[i].pc = "done"
    /\ invocations' = [invocations EXCEPT ![i] = [pc |-> "idle", steps |-> 0]]
    /\ UNCHANGED app
    /\ UNCHANGED <<chatVars, retryVars, webVars, chartVars, debounceVars>>

LambdaNext == \E i \in Invocations : Invoke(i) \/ BuildStep(i) \/ Emit(i) \/ Finish(i)

SpecLambda == Init /\ [][LambdaNext]_vars

----------------------------------------------------------------------------
\* HistoryChart: the coinId prop changes, requests settle in any order

ChartCoins == {BITCOIN, ETH, DOGE}

\* requests in flight at once
MaxPending == 2

\* a render with another coinId: the effect on [coinId] runs
SelectCoin(id) ==
    /\ id # chartCoinId
    /\ id # <<>> => Len(chartPending) < MaxPending
    /\ chartCoinId' = id
    /\ IF id # <<>>
       THEN /\ chartLoading' = TRUE
            /\ chartError' = Null
            /\ chartPending' = Append(chartPending, id)
            /\ UNCHANGED chartHistory
       ELSE /\ chartHistory' = Null
            /\ chartError' = Null
            /\ UNCHANGED <<chartLoading, chartPending>>
    /\ UNCHANGED <<chatVars, retryVars, webVars, lambdaVars, debounceVars>>

\* the k-th request in flight settles: fetchHistory resumes after its await
Settle(k, ok) ==
    /\ k \in 1..Len(chartPending)
    /\ chartHistory' = historyAfter(chartPending[k], ok, chartHistory)
    /\ chartError' = errorAfter(ok, chartError)
    /\ chartLoading' = FALSE
    /\ chartPending' = without(chartPending, k)
    /\ UNCHANGED chartCoinId
    /\ UNCHANGED <<chatVars, retryVars, webVars, lambdaVars, debounceVars>>

ChartNext ==
    \/ \E id \in ChartCoins \cup {<<>>} : SelectCoin(id)
    \/ \E k \in 1..MaxPending, ok \in BOOLEAN : Settle(k, ok)

SpecChart == Init /\ [][ChartNext]_vars

----------------------------------------------------------------------------
\* useDebounceCallback: calls of the debounced function and timers

\* calls of the debounced function in a run
MaxCalls == 3

\* the clock stops here
MaxClock == 2000

CallArgs == {<<"a">>, <<"b">>}

\* time passes in steps of half the delay, or of the delay
ClockSteps == {DebounceDelay \div 2, DebounceDelay}

\* the debounced function is called with args
Call(args) ==
    /\ Len(callLog) < MaxCalls
    /\ timeoutRef' = debouncedCallback(timeoutRef, timers, Len(callLog) + 1, clock, args).ref
    /\ timers' = debouncedCallback(timeoutRef, timers, Len(callLog) + 1, clock, args).timers
    /\ callLog' = Append(callLog, [at |-> clock, args |-> args])
    /\ UNCHANGED <<clock, invoked>>
    /\ UNCHANGED <<chatVars, retryVars, webVars, lambdaVars, chartVars>>

\* a timer that is due runs its function: callback(...args)
Fire(t) ==
    /\ t \in timers
    /\ t.due = clock
    /\ timers' = timers \ {t}
    /\ invoked' = Append(invoked, [at |-> clock, args |-> t.args, id |-> t.id])
    /\ UNCHANGED <<timeoutRef, clock, callLog>>
    /\ UNCHANGED <<chatVars, retryVars, webVars, lambdaVars, chartVars>>

\* time passes, never beyond a timer that is due
Advance(d) ==
    /\ clock + d <= MaxClock
    /\ \A t \in timers : clock + d <= t.due
    /\ clock' = clock + d
    /\ UNCHANGED <<timeoutRef, timers, callLog, invoked>>
    /\ UNCHANGED <<chatVars, retryVars, webVars, lambdaVars, chartVars>>

DebounceNext ==
    \/ \E args \in CallArgs : Call(args)
    \/ \E t \in timers : Fire(t)
    \/ \E d \in ClockSteps : Advance(d)

SpecDebounce == Init /\ [][DebounceNext]_vars

RetryNext == FetchStart \/ Attempt \/ Wake \/ FetchEnd

SpecRetry == Init /\ [][RetryNext]_vars

----------------------------------------------------------------------------
\* Properties of parseQuery (SpecChat)

RuleOrder == <<"Price", "Trend", "Volume", "Change", "MarketCap", "TopList">>

ruleMatches(rule, s) ==
    CASE rule = "Price" -> PriceRe(s).ok
      [] rule = "Trend" -> TrendRe(s).ok
      [] rule = "Volume" -> VolumeRe(s).ok
      [] rule = "Change" -> ChangeRe(s).ok
      [] rule = "MarketCap" -> MarketCapRe(s).ok
      [] rule = "TopList" -> TopCoinsRe(s).ok

\* the positions in RuleOrder of the rules that match s
matchingRules(s) == {i \in 1..Len(RuleOrder) : ruleMatches(RuleOrder[i], s)}

\* the kinds of answer each rule's handler gives
ruleKinds(rule) ==
    CASE rule = "Price" -> {"price", "notFound", "error"}
      [] rule = "Trend" -> {"trend", "historyMissingLocal", "historyMissingRemote",
                            "notFound", "error"}
      [] rule = "Volume" -> {"volume", "notFound", "error"}
      [] rule = "Change" -> {"change", "notFound", "error"}
      [] rule = "MarketCap" -> {"marketCap", "notFound", "error"}
      [] rule = "TopList" -> {"topList", "noCoins", "error"}
      [] OTHER -> {"help"}

\* C1: a query that matches two or more rules is answered by the handler
\* of the rule that comes first in the order Price, Trend, Volume, Change,
\* MarketCap, TopList; "what is the price of bitcoin" is answered by Price.
C1_FirstMatchWins ==
    res.op = "chat" =>
        /\ Cardinality(matchingRules(trim(toLowerCase(res.query)))) >= 2 =>
              /\ res.rule = RuleOrder[Min(matchingRules(trim(toLowerCase(res.query))))]
              /\ res.answer.kind \in ruleKinds(res.rule)
        /\ res.query = WhatIsThe \o PriceOf \o BITCOIN =>
              res.rule = "Price" /\ res.answer.kind \in ruleKinds("Price")

C1_Witness ==
    /\ res.op = "chat"
    /\ res.query = VolumeOf \o PriceOf \o BITCOIN
    /\ matchingRules(trim(toLowerCase(res.query))) = {1, 3}
    /\ res.rule = "Price"
    /\ res.answer.kind = "price"

SingleRules == {"Price", "Trend", "Volume", "Change", "MarketCap"}

\* the rows of the coins table whose coingeckoId is name
localRows(name) == {c \in coinsTable : c.coingeckoId = name}

\* the number a column holds, 0 for null
figureOf(x) == IF x.t = "null" THEN Num(0) ELSE Num(x.v)

localFigure(rule, row) ==
    CASE rule = "Price" -> figureOf(row.currentPrice)
      [] rule = "Volume" -> figureOf(row.volume24h)
      [] rule = "Change" -> figureOf(row.priceChange24h)
      [] rule = "MarketCap" -> figureOf(row.marketCap)

figureKind(rule) ==
    CASE rule = "Price" -> "price" [] rule = "Volume" -> "volume"
      [] rule = "Change" -> "change" [] rule = "MarketCap" -> "marketCap"

\* a read of the local store failed during the request r
dbFailed(r) == r.env.db = "fail1" \/ (r.env.db = "fail2" /\ r.rule = "Trend")

\* C2: when the local store holds the coin a single-coin or trend query
\* names, the request makes no call of searchCoin and no request to the
\* provider, whatever the provider would have answered, and the answer is
\* built from the local row (the error apology when the store cannot be read).
C2_LocalHitStaysLocal ==
    res.op = "chat" /\ res.rule \in SingleRules /\ localRows(res.coinName) # {} =>
        /\ res.searched = 0
        /\ res.calls = <<>>
        /\ res.store = res.before
        /\ dbFailed(res) => res.answer.kind = "error"
        /\ ~dbFailed(res) =>
              \E row \in localRows(res.coinName) :
                  /\ res.answer.name = row.name
                  /\ res.rule # "Trend" =>
                        /\ res.answer.kind = figureKind(res.rule)
                        /\ res.answer.symbol = toUpperCase(row.symbol)
                        /\ res.answer.value = localFigure(res.rule, row)
                  /\ res.rule = "Trend" =>
                        /\ res.answer.kind \in {"trend", "historyMissingLocal"}
                        /\ res.answer.kind = "trend" => res.data.coinId = row.coingeckoId

C2_Witness ==
    /\ res.op = "chat"
    /\ res.rule = "Price"
    /\ res.coinName = BITCOIN
    /\ \E c \in DOMAIN remoteIndex : remoteIndex[c].id = BITCOIN
    /\ res.env.list = "ok" /\ res.env.markets = "ok"
    /\ res.answer.value = Num(45000)
    /\ res.searched = 0

\* C3: parseQuery never raises: under any combination of failures of the
\* local store, the cache and the provider it returns an answer.
C3_AlwaysAnswers ==
    res.op = "chat" =>
        /\ ~res.threw
        /\ res.answer.kind \in UNION {ruleKinds(r) : r \in {"Unknown"} \cup
                                          {RuleOrder[i] : i \in 1..Len(RuleOrder)}}

C3_Witness ==
    /\ res.op = "chat"
    /\ res.env.db = "fail1" /\ res.env.cache = "down" /\ res.env.list = "err"
    /\ res.rule = "Trend"
    /\ res.answer.kind = "error"

\* C8: the percent change of a trend is 0 when the oldest price of the
\* window is zero.
C8_ZeroOldestGuarded ==
    res.op = "chat" /\ res.answer.kind = "trend"
        /\ res.data.rows[Len(res.data.rows)].price = Num(0) =>
            res.answer.value = Num(0)

remoteFigure(rule, marketData) ==
    CASE rule = "Price" -> marketData.current_price
      [] rule = "Volume" -> marketData.total_volume
      [] rule = "Change" -> marketData.price_change_percentage_24h
      [] rule = "MarketCap" -> marketData.market_cap

\* the record searchCoin hands to the handler of the request r
handedOver(r) == searchCoin(r.coinName, r.env, r.before, now).val

\* C9: the figure a single-coin answer is rendered from is finite: a null
\* figure of the local row or of the provider's record is taken as 0 and
\* the answer is rendered from that 0.
C9_NullFiguresBecomeZero ==
    res.op = "chat" /\ res.rule \in SingleRules \ {"Trend"} /\ res.env.db # "fail1" =>
        /\ res.answer.kind = figureKind(res.rule) => IsFinite(res.answer.value)
        /\ \A row \in localRows(res.coinName) :
              localFigure(res.rule, row) = Num(0) =>
                  res.answer.kind = figureKind(res.rule) /\ res.answer.value = Num(0)
        /\ localRows(res.coinName) = {} /\ ~IsNull(handedOver(res))
              /\ IsNull(remoteFigure(res.rule, handedOver(res))) =>
                  res.answer.kind = figureKind(res.rule) /\ res.answer.value = Num(0)

\* C10: when the coin is absent from the local store and searchCoin
\* returns absent, the answer is the apology that names the lower-cased,
\* trimmed coin name of the query, and there is no data payload.
C10_NotFoundNamesCoin ==
    res.op = "chat" /\ res.rule \in SingleRules /\ res.env.db # "fail1"
        /\ localRows(res.coinName) = {} /\ IsNull(handedOver(res)) =>
            /\ res.answer.kind = "notFound"
            /\ res.answer.name = res.coinName
            /\ res.coinName = trim(toLowerCase(res.coinName))
            /\ res.data = NoData
            /\ res.query = VolumeOf \o <<SP, "ZZZ", SP, QM, SP, "please">> =>
                  res.answer.name = ZZZ

C10_Witness ==
    /\ res.op = "chat"
    /\ res.query = VolumeOf \o <<SP, "ZZZ", SP, QM, SP, "please">>
    /\ res.env.db = "ok" /\ res.env.list = "ok"
    /\ res.searched = 1
    /\ res.answer = Answer("notFound", ZZZ, <<>>, Null, 0)

----------------------------------------------------------------------------
\* Properties of retry (SpecRetry)

\* every attempt so far was answered 429 and the call gave up
gaveUpOn429 == retryPc = "done" /\ retryOut.kind = "thrown" /\ retryOut.err = "429"

\* C4 as stated: when every attempt is answered 429 the call waits 10 s,
\* 20 s and 40 s and gives up on the fourth failure.
C4_ThreeWaitsFourFailures ==
    gaveUpOn429 => retryWaits = <<10000, 20000, 40000>> /\ retryCalls = 4

\* C4 amended: when every attempt is answered 429 the call waits 10 s and
\* then 20 s between attempts and gives up on the third failure.
C4_TwoWaitsThreeFailures ==
    /\ gaveUpOn429 => retryWaits = <<10000, 20000>> /\ retryCalls = 3
    /\ retryPc = "sleep" => retryWaits = SubSeq(<<10000, 20000>>, 1, retryCalls)

C4_Witness == gaveUpOn429 /\ retryCalls = 3 /\ Len(retryWaits) = 2

\* C5: fetchCoinHistory makes at most 3 attempts; a failure other than 429
\* propagates at once, with no wait after it and no further attempt; a 429
\* on the last attempt propagates the provider's error.
C5_BoundedAttempts ==
    /\ retryCalls <= 3
    /\ retryPc = "sleep" => retryOut.err = "429" /\ retryCalls < 3
    /\ Len(retryWaits) = IF retryPc = "done" THEN retryCalls - 1 ELSE retryCalls
    /\ retryPc = "done" =>
          /\ retryOut.kind \in {"returned", "thrown"}
          /\ retryOut.kind = "thrown" =>
                /\ retryOut.err \in {"429", "500", "neterr"}
                /\ retryOut.err = "429" => retryCalls = 3

C5_Witness ==
    /\ retryPc = "done"
    /\ retryOut.kind = "thrown"
    /\ retryOut.err = "500"
    /\ retryCalls = 2
    /\ retryWaits = <<10000>>

----------------------------------------------------------------------------
\* Properties of the cache (SpecSearch)

\* the key searchCoin uses for query
searchKey(query) == getCacheKey("search", <<trim(toLowerCase(query))>>)

\* store holds a live negative result under key
negativeCached(store, key) == \E e \in store : e.key = key /\ IsNull(e.val) /\ now < e.exp

\* C6: once a search ended with no matching coin and the cache stored it,
\* a search for the same text within 3600 s makes no request to the provider.
C6_NegativeResultServedFromCache ==
    res.op = "search" /\ res.env.hasRedis /\ res.env.cache = "ok"
        /\ negativeCached(res.before, searchKey(res.query)) =>
            res.calls = <<>> /\ IsNull(res.val)

\* the same request with a configured, working and empty cache
emptyCache(env) == [env EXCEPT !.hasRedis = TRUE, !.cache = "ok"]

getDead(env) == ~env.hasRedis \/ env.cache \in {"getFail", "down"}
setDead(env) == ~env.hasRedis \/ env.cache \in {"setFail", "down"}

sameValue(a, b) == a.t = b.t /\ (a.t = "null" \/ a = b)

\* store holds nothing live under key
missed(store, key) == ~\E e \in store : e.key = key /\ now < e.exp

\* C7: getCached and setCached never raise: with the store unconfigured or
\* failing, getCached yields absent and setCached changes nothing, and
\* searchCoin and the history endpoint answer as they do with an empty cache.
C7_CacheFailureIsAMiss ==
    /\ res.op = "search" =>
          /\ setDead(res.env) => res.store = res.before
          /\ getDead(res.env)
                \/ (setDead(res.env) /\ missed(res.before, searchKey(res.query))) =>
                /\ sameValue(res.val, searchCoin(res.query, emptyCache(res.env), {}, now).val)
                /\ res.calls = searchCoin(res.query, emptyCache(res.env), {}, now).calls
    /\ res.op = "history" =>
          /\ setDead(res.env) => res.store = res.before
          /\ getDead(res.env) \/ (setDead(res.env) /\ res.before = {}) =>
                /\ res.status =
                      historyRoute(res.coinId, res.daysParam, emptyCache(res.env), {}, now).status
                /\ res.body =
                      historyRoute(res.coinId, res.daysParam, emptyCache(res.env), {}, now).body

C7_Witness ==
    /\ res.op = "search"
    /\ hasRedis
    /\ res.env.cache = "down"
    /\ res.before # {}
    /\ ~missed(res.before, searchKey(res.query))
    /\ res.calls = <<"list", "markets">>
    /\ ~IsNull(res.val)

----------------------------------------------------------------------------
\* Further properties of parseQuery (SpecChat)

\* C11: a Trend query whose coin is absent from the local store but found
\* by searchCoin is answered with the history-unavailable message naming
\* the coin found and the day count asked for; no history is read locally
\* (a failing history select changes nothing), nothing but searchCoin's own
\* requests goes to the provider, and there is no data payload.
C11_RemoteOnlyTrendHasNoHistory ==
    res.op = "chat" /\ res.rule = "Trend" /\ res.env.db # "fail1"
        /\ localRows(res.coinName) = {} /\ ~IsNull(handedOver(res)) =>
            /\ res.answer.kind = "historyMissingRemote"
            /\ res.answer.name = handedOver(res).name
            /\ res.answer.n = res.n
            /\ res.data = NoData
            /\ res.searched = 1
            /\ res.calls \in {<<>>, <<"list", "markets">>}

C11_Witness ==
    /\ res.op = "chat"
    /\ res.query = NDayTrendOf(7) \o DOGE
    /\ res.env.db = "fail2"
    /\ res.answer = Answer("historyMissingRemote", <<"Doge">>, <<>>, Null, 7)
    /\ res.calls = <<"list", "markets">>

\* C17: "trend of <coin>", with no day count, is classified as Trend for
\* <coin> with 30 days.
C17_TrendWithoutDaysDefaultsTo30 ==
    res.op = "chat" /\ res.query \in {<<"trend", SP, "of", SP>> \o BITCOIN,
                                      ShowMeThe \o <<"trend", SP, "of", SP>> \o BITCOIN} =>
        res.rule = "Trend" /\ res.coinName = BITCOIN /\ res.n = 30

----------------------------------------------------------------------------
\* Further properties of searchCoin (SpecSearch)

\* the provider request that failed in the search r, if one did
providerFailed(r) ==
    \/ r.calls = <<"list">> /\ r.env.list # "ok"
    \/ r.calls = <<"list", "markets">> /\ r.env.markets \in {"429", "err"}

\* C12: a provider error during searchCoin, 429 included, is caught:
\* searchCoin returns absent, raises nothing and writes nothing to the cache.
C12_ProviderErrorsBecomeAbsent ==
    res.op = "search" =>
        /\ ~res.threw
        /\ providerFailed(res) => IsNull(res.val) /\ res.store = res.before

C12_Witness ==
    /\ res.op = "search"
    /\ res.env.hasRedis /\ res.env.cache = "ok"
    /\ res.env.markets = "429"
    /\ res.calls = <<"list", "markets">>
    /\ IsNull(res.val)

----------------------------------------------------------------------------
\* Properties over any store and any provider index (SpecData)

\* the entries of the index that equal q by id, symbol or name, and those
\* that contain q in name or symbol, by position
exactAt(q) ==
    {i \in 1..Len(remoteIndex) :
        \/ toLowerCase(remoteIndex[i].id) = q
        \/ toLowerCase(remoteIndex[i].symbol) = q
        \/ toLowerCase(remoteIndex[i].name) = q}

substringAt(q) ==
    {i \in 1..Len(remoteIndex) :
        \/ includes(toLowerCase(remoteIndex[i].name), q)
        \/ includes(toLowerCase(remoteIndex[i].symbol), q)}

\* C13: searchCoin selects the first entry of the index that equals the
\* lower-cased, trimmed query by id, symbol or name; only without any
\* exact match the first entry that contains it; an exact match wins over
\* a substring match that comes earlier in the index.
C13_ExactBeforeSubstring ==
    res.op = "search" /\ res.env.list = "ok" /\ res.env.markets = "ok" =>
        IF exactAt(trim(toLowerCase(res.query))) # {}
        THEN res.val.t = "coin"
             /\ res.val.id = remoteIndex[Min(exactAt(trim(toLowerCase(res.query))))].id
        ELSE IF substringAt(trim(toLowerCase(res.query))) # {}
        THEN res.val.t = "coin"
             /\ res.val.id = remoteIndex[Min(substringAt(trim(toLowerCase(res.query))))].id
        ELSE IsNull(res.val) /\ res.calls = <<"list">>

C13_Witness ==
    /\ res.op = "search"
    /\ res.query = <<"Doge">>
    /\ res.env.list = "ok" /\ res.env.markets = "ok"
    /\ Len(remoteIndex) = 3
    /\ remoteIndex[1].id = <<"doge", "cash">>
    /\ remoteIndex[2].id = <<"baby", "doge">>
    /\ remoteIndex[3].id = DOGE
    /\ res.val.t = "coin"
    /\ res.val.id = <<"baby", "doge">>

\* the market cap of the coin a listed row names, 0 without one
capOfRow(row) == figureOf((CHOOSE c \in coinsTable : c.name = row.name).marketCap).v

\* C14: "show me top N coins" with N >= 1 over a store of M coins lists
\* min(N, M) entries, numbered from 1 on, in descending order of market cap,
\* and they are the coins of largest market cap.
C14_TopNInMarketCapOrder ==
    res.op = "chat" /\ res.rule = "TopList" /\ res.n >= 1 /\ res.env.db = "ok" =>
        /\ Len(res.data.rows) = Min({res.n, Cardinality(coinsTable)})
        /\ \A i \in 1..Len(res.data.rows) : res.data.rows[i].rank = i
        /\ \A i, j \in 1..Len(res.data.rows) :
              i < j => capOfRow(res.data.rows[i]) >= capOfRow(res.data.rows[j])
        /\ \A c \in coinsTable :
              (\A i \in 1..Len(res.data.rows) : res.data.rows[i].name # c.name) =>
                  \A i \in 1..Len(res.data.rows) :
                      capOfRow(res.data.rows[i]) >= figureOf(c.marketCap).v

----------------------------------------------------------------------------
\* Properties of the forms of a query (SpecForms)

sameClass(a, b) == a.rule = b.rule /\ a.coinName = b.coinName /\ a.n = b.n

\* C16: letter case, a leading "what is the" or "show me the" and a
\* trailing "?" do not change the classification: for each of the six
\* intents every form of the query yields the same intent with the same
\* coin name and count.
C16_SameClassInEveryForm ==
    res.op = "chat" =>
        \A body \in FormBodies :
            res.query \in FormsOf(body) =>
                \A form \in FormsOf(body) :
                    sameClass(parseQuery(form, res.env, res.before, now), res)

----------------------------------------------------------------------------
\* Properties of the cache gateway (SpecCache)

\* the store is configured and the request the call makes goes through
setWorks(r) == r.env.hasRedis /\ r.env.cache \in {"ok", "getFail"}
getWorks(r) == r.env.hasRedis /\ r.env.cache \in {"ok", "setFail"}

\* an environment with a working cache store
WorkingEnv == [NoEnv EXCEPT !.cache = "ok"]

C18_WitnessExpired ==
    /\ res.op = "get"
    /\ getWorks(res)
    /\ now = T0 + CACHE_TTL_COINS
    /\ IsNull(res.val)
    /\ redis = {}

----------------------------------------------------------------------------
\* Properties of the cached search and history results (SpecSearch)

\* C19: with the cache store working, a coin record that searchCoin(q) got
\* from the provider is stored under crypto:search:<q lower-cased and
\* trimmed> for 3600 s, and a searchCoin whose text gives the same key while
\* the entry lives returns that record and makes no provider request.
C19_FoundCoinIsCachedForAnHour ==
    res.op = "search" =>
        /\ res.val.t = "coin" /\ res.calls # <<>> /\ setWorks(res) =>
              /\ [key |-> searchKey(res.query), val |-> res.val,
                  exp |-> now + CACHE_TTL_SEARCH] \in res.store
              /\ \A e \in res.store : e.key = searchKey(res.query) => e.val = res.val
        /\ getWorks(res) =>
              \A e \in res.before :
                  e.key = searchKey(res.query) /\ e.val.t = "coin" =>
                      /\ now < e.exp /\ e.exp <= now + CACHE_TTL_SEARCH
                      /\ res.val = e.val
                      /\ res.calls = <<>>
                      /\ res.store = res.before

C19_Witness ==
    /\ res.op = "search"
    /\ res.query = <<SP, "doge", SP>>
    /\ getWorks(res)
    /\ now = T0 + CACHE_TTL_SEARCH \div 2
    /\ res.calls = <<>>
    /\ res.val.t = "coin"
    /\ res.val.id = DOGE
    /\ [key |-> <<<<"crypto">>, <<"search">>, DOGE>>, val |-> res.val,
        exp |-> T0 + CACHE_TTL_SEARCH] \in res.before

\* the key of the history request r: crypto:history:<id>:<days>, days the
\* number parsed from the request
historyKey(r) == getCacheKey("history", <<r.coinId, NumStr(daysOf(r.daysParam).v)>>)

\* C20: the history route stores a response only when it is the 200 it has
\* just built, under crypto:history:<id>:<days> for 300 s; a request that
\* finds a live entry under its key answers 200 with the stored response
\* and reads nothing from the local store; a 400, a 404 and a 500 leave the
\* cache store as it was.
C20_OnlySuccessIsCachedFiveMinutes ==
    res.op = "history" =>
        /\ res.status # 200 => res.store = res.before
        /\ res.store # res.before =>
              /\ res.status = 200 /\ res.reads = 2
              /\ res.store = {e \in res.before : e.key # historyKey(res)}
                    \cup {[key |-> historyKey(res), val |-> res.body,
                           exp |-> now + CACHE_TTL_HISTORY]}
        /\ res.status = 200 /\ res.reads > 0 /\ setWorks(res) =>
              [key |-> historyKey(res), val |-> res.body,
               exp |-> now + CACHE_TTL_HISTORY] \in res.store
        /\ getWorks(res) /\ ~invalidDays(daysOf(res.daysParam)) =>
              \A e \in res.before :
                  e.key = historyKey(res) =>
                      /\ now < e.exp /\ e.exp <= now + CACHE_TTL_HISTORY
                      /\ res.status = 200
                      /\ res.body = e.val
                      /\ res.reads = 0
                      /\ res.store = res.before

C20_Witness ==
    /\ res.op = "history"
    /\ res.coinId = BITCOIN /\ res.daysParam = <<"7">>
    /\ getWorks(res) /\ res.env.db = "fail1"
    /\ now = T0 + CACHE_TTL_HISTORY \div 2
    /\ res.status = 200
    /\ res.reads = 0
    /\ [key |-> <<<<"crypto">>, <<"history">>, BITCOIN, <<"7">>>>, val |-> res.body,
        exp |-> T0 + CACHE_TTL_HISTORY] \in res.before

\* a 404 and a 400 with a working cache store
C20_WitnessNotStored ==
    /\ res.op = "history"
    /\ res.status \in {400, 404}
    /\ setWorks(res) /\ getWorks(res)
    /\ res.store = res.before

----------------------------------------------------------------------------
\* Properties of GET /api/coins (SpecCoins)

\* C21: with the cache store working, a repeat of a GET /api/coins request
\* that was answered 200, made within 60 s (here: at once), is answered
\* from the cache, without a query of the local store.
C21_RepeatWithinAMinuteReadsNothing ==
    res.op = "coins" /\ res.out.status = 200 /\ res.env.hasRedis =>
        /\ coinsRoute(res.top, res.page, res.pageSize, res.env, redis).status = 200
        /\ coinsRoute(res.top, res.page, res.pageSize, res.env, redis).reads = 0

\* the text is a number between 1 and 100
validTop(param) ==
    /\ param # <<>>
    /\ \A i \in 1..Len(param) : param[i] \in Digits
    /\ parseInt(param) >= 1 /\ parseInt(param) <= 100

\* C25: GET /api/coins answers 400 and queries nothing for every supplied
\* top that is not a number between 1 and 100.
C25_InvalidTopIsRefused ==
    res.op = "coins" /\ res.top # <<>> /\ ~validTop(res.top) =>
        res.out.status = 400 /\ res.out.reads = 0

----------------------------------------------------------------------------
\* Properties of the trend figure and of the store (SpecChat)

\* the points of the coin in the window of the request r
windowPoints(r) ==
    {h \in historyTable : h.coinId = r.data.coinId /\ h.timestamp >= now - r.n * DAY}

newestOf(points) == CHOOSE h \in points : \A o \in points : o.timestamp <= h.timestamp
oldestOf(points) == CHOOSE h \in points : \A o \in points : o.timestamp >= h.timestamp

\* C23: over a window that is not empty the change reported for a trend
\* is (newest - oldest) / oldest * 100, newest the first and oldest the
\* last point of the window, here in hundredths of a percent and for an
\* oldest price other than zero; for 105, 110, 100 it is 5.00%.
C23_ChangeIsNewestOverOldest ==
    res.op = "chat" /\ res.answer.kind = "trend" =>
        /\ windowPoints(res) # {}
        /\ Len(res.data.rows) = Cardinality(windowPoints(res))
        /\ res.data.rows[1].timestamp = newestOf(windowPoints(res)).timestamp
        /\ res.data.rows[Len(res.data.rows)].timestamp = oldestOf(windowPoints(res)).timestamp
        /\ oldestOf(windowPoints(res)).price.v # 0 =>
              res.answer.value =
                  Num(((newestOf(windowPoints(res)).price.v - oldestOf(windowPoints(res)).price.v)
                          * 10000) \div oldestOf(windowPoints(res)).price.v)

C23_Witness ==
    /\ res.op = "chat"
    /\ res.query = NDayTrendOf(7) \o BITCOIN
    /\ res.answer.kind = "trend"
    /\ Len(res.data.rows) = 3
    /\ res.data.rows[1].price = Num(105)
    /\ res.data.rows[2].price = Num(110)
    /\ res.data.rows[3].price = Num(100)
    /\ res.answer.value = Num(500)

\* C24: a chat query leaves the coins and the historical-prices tables as
\* they were, whatever it asks and whatever the handler fetched.
C24_ChatOnlyReads ==
    [][res'.op = "chat" => coinsTable' = coinsTable /\ historyTable' = historyTable]_vars

C24_Witness ==
    /\ res.op = "chat"
    /\ res.rule = "Price"
    /\ res.coinName = DOGE
    /\ res.calls = <<"list", "markets">>
    /\ res.answer.kind = "price"
    /\ coinsTable = SeedCoins
    /\ historyTable = SeedHistory(T0)

----------------------------------------------------------------------------
\* Properties of the favorites and auth routes (SpecFavorites, SpecSignup)

\* the header is "Bearer " followed by a token of this server
bearerOfUser(header) == header \in {<<"Bearer", SP, "tok1">>, <<"Bearer", SP, "tok2">>}

\* C22: a request to a favorites route without an Authorization header
\* "Bearer <token>" whose token verifies is answered 401 at once and has
\* made no read and no write of a table; the table is as it was.
C22_FavoritesNeedAToken ==
    \A c \in Clients :
        reqs[c].kind \in {"list", "add", "remove", "check"} /\ ~bearerOfUser(reqs[c].header) =>
            /\ reqs[c].pc = "done"
            /\ reqs[c].status = 401
            /\ reqs[c].reads = 0 /\ reqs[c].writes = 0

C22_Witness ==
    /\ reqs["c1"].kind = "remove" /\ reqs["c1"].header = <<"bearer", SP, "tok1">>
    /\ reqs["c1"].coinId = BITCOIN
    /\ reqs["c1"].status = 401
    /\ favoritesTable = <<[userId |-> 1, coinId |-> BITCOIN]>>

\* C26: the favorites table never holds two rows for one user and coin,
\* and a POST that finds the pair present answers 409 without a write.
C26_OneRowPerUserAndCoin ==
    /\ \A i, j \in 1..Len(favoritesTable) :
          favoritesTable[i] = favoritesTable[j] => i = j
    /\ \A c \in Clients :
          reqs[c].kind = "add" /\ reqs[c].status = 409 => reqs[c].writes = 0

\* C27: a signup for an email that is registered after lower-casing
\* answers 409 and creates nothing; of two signups for one email one
\* creates the user and the other answers 409: no signup ends in 500 and
\* no email is registered twice.
C27_SecondSignupIs409 ==
    /\ \A u, v \in usersTable : u.email = v.email => u = v
    /\ \A c \in Clients :
          reqs[c].kind = "signup" /\ reqs[c].pc = "done" =>
              /\ reqs[c].status \in {200, 400, 409}
              /\ reqs[c].status = 409 => reqs[c].writes = 0

----------------------------------------------------------------------------
\* Properties of the serverless entry (SpecLambda)

\* C28: a request is handed to the Fastify instance only after every
\* register call and app.ready() of buildApp have resolved.
C28_DispatchOnlyWhenReady ==
    \A i \in Invocations :
        invocations[i].pc = "done" => invocations[i].steps = Len(BuildSteps)

----------------------------------------------------------------------------
\* Properties of HistoryChart (SpecChart)

\* C29: with a coin selected, no request in flight and no error shown,
\* the chart is not loading and the history it shows is the one of the
\* selected coin.
C29_ShowsTheSelectedCoin ==
    chartCoinId # <<>> /\ chartPending = <<>> /\ chartError = Null =>
        /\ chartLoading = FALSE
        /\ chartHistory = getCoinHistory(chartCoinId)

----------------------------------------------------------------------------
\* Properties of useDebounceCallback (SpecDebounce)

\* the k-th call is followed by another one less than the delay later
supersededCall(k) ==
    k < Len(callLog) /\ callLog[k + 1].at - callLog[k].at < DebounceDelay

\* the k-th call is the last of its burst: no call follows within the delay
lastOfBurst(k) ==
    k = Len(callLog) \/ callLog[k + 1].at - callLog[k].at > DebounceDelay

runsOf(k) == {i \in 1..Len(invoked) : invoked[i].id = k}

====
